---- MODULE Spec2Model ----
(***************************************************************************)
(* Model of the WebMD HTML-to-Markdown conversion code:                    *)
(*   - HTMLToMarkdownParser (archived-dev-files/html-to-markdown-parser.js)*)
(*   - PerformanceOptimizedParser, LRUCache and WorkerBasedParser          *)
(*     (performance optimizations)                                         *)
(*   - EdgeCaseHandlers (archived-dev-files/api-evaluation-report.md)      *)
(* Strings are sequences of one-character strings, so that trimming,       *)
(* splitting and joining are computed as the JavaScript code computes      *)
(* them.  A URL is carried as a short sequence of tokens.                  *)
(***************************************************************************)
EXTENDS Integers, Sequences, FiniteSets, TLC

VARIABLES
  options,     \* this.options of the parser under test (shared by both parsers)
  input,       \* the element handed to the last HTMLToMarkdownParser.convert; for the
               \* PerformanceOptimizedParser the caller's tree, as it is now
  state,       \* HTMLToMarkdownParser.state of the long-lived parser instance
  result,      \* outcome of the last HTMLToMarkdownParser.convert: [err, value]
  run,         \* execution record of the last convert (events, nodes visited)
  prev,        \* outcome of the convert call before the last one on that instance
  cache,       \* PerformanceOptimizedParser.cache (LRUCache.cache, a Map)
  stats,       \* PerformanceOptimizedParser.conversionStats
  call,        \* the convertOptimized call in flight (an async function's frame)
  hist,        \* convertWithCache calls made so far: element, returned value
  worker,      \* a WorkerBasedParser: its worker, its handlers, the promises its
               \* convert calls returned and the messages on their way
  table,       \* a <table> handed to EdgeCaseHandlers.normalizeTable: its rows
  sample,      \* a string handed to an escaper or to processInlineCode, and what came back
  lru,         \* an LRUCache used on its own: its capacity, its Map and the last operation on it
  ext          \* the extension in a browser tab: the page, the content scripts in it, the messages in flight

vars == <<options, input, state, result, run, prev, cache, stats, call, hist, worker, table, sample, lru, ext>>

\* the state of the components a parser does not touch
aside == <<worker, table, sample, lru, ext>>

----------------------------------------------------------------------------
(* Bounds of the model *)

\* JavaScript call-stack limit, counted in nested processNode calls
MaxCallDepth == 6
\* number of nodes in a generated input tree
MaxNodes == 3
\* number of convertWithCache / convertOptimized calls made on one parser
MaxCalls == 2
\* number of convert calls made on one WorkerBasedParser
MaxRequests == 2
\* length of a string handed to an escaper or to processInlineCode
MaxLen == 3
\* rows of a table and cells of a row handed to normalizeTable
MaxRows == 2
MaxCells == 2

----------------------------------------------------------------------------
(* JavaScript strings *)

Ws == {" ", "\n", "\t"}

RECURSIVE trimStart(_)
trimStart(s) ==
  IF s = <<>> THEN s
  ELSE IF Head(s) \in Ws THEN trimStart(Tail(s)) ELSE s

RECURSIVE trimRight(_)
trimRight(s) ==
  IF s = <<>> THEN s
  ELSE IF s[Len(s)] \in Ws THEN trimRight(SubSeq(s, 1, Len(s) - 1)) ELSE s

trim(s) == trimRight(trimStart(s))

\* index of the first occurrence of character c in s, 0 when there is none
RECURSIVE indexOfFrom(_, _, _)
indexOfFrom(s, c, i) ==
  IF i > Len(s) THEN 0
  ELSE IF s[i] = c THEN i ELSE indexOfFrom(s, c, i + 1)

includes(s, c) == indexOfFrom(s, c, 1) # 0

\* String.prototype.split on a one-character separator
RECURSIVE split(_, _)
split(s, c) ==
  LET i == indexOfFrom(s, c, 1) IN
  IF i = 0 THEN <<s>>
  ELSE <<SubSeq(s, 1, i - 1)>> \o split(SubSeq(s, i + 1, Len(s)), c)

\* Array.prototype.join
RECURSIVE join(_, _)
join(parts, sep) ==
  IF parts = <<>> THEN <<>>
  ELSE IF Len(parts) = 1 THEN parts[1]
  ELSE parts[1] \o sep \o join(Tail(parts), sep)

\* String.prototype.repeat for a count >= 0 (a negative count throws RangeError:
\* the callers test for it)
RECURSIVE repeat(_, _)
repeat(s, n) == IF n <= 0 THEN <<>> ELSE s \o repeat(s, n - 1)

Digit(d) == <<"0", "1", "2", "3", "4", "5", "6", "7", "8", "9">>[d + 1]

\* Number to decimal string (n >= 0)
RECURSIVE numToStr(_)
numToStr(n) ==
  IF n < 10 THEN <<Digit(n)>> ELSE numToStr(n \div 10) \o <<Digit(n % 10)>>

\* text.replace(/\s+/g, ' ')
RECURSIVE collapseWhitespace(_)
collapseWhitespace(s) ==
  IF s = <<>> THEN s
  ELSE IF Head(s) \in Ws
       THEN <<" ">> \o collapseWhitespace(trimStart(s))
       ELSE <<Head(s)>> \o collapseWhitespace(Tail(s))

\* s.replace(/\n{3,}/g, '\n\n')
RECURSIVE newlineRun(_)
newlineRun(s) ==
  IF s # <<>> /\ Head(s) = "\n" THEN 1 + newlineRun(Tail(s)) ELSE 0

RECURSIVE collapseNewlines(_)
collapseNewlines(s) ==
  IF s = <<>> THEN s
  ELSE LET k == newlineRun(s) IN
       IF k >= 3 THEN <<"\n", "\n">> \o collapseNewlines(SubSeq(s, k + 1, Len(s)))
       ELSE IF k > 0 THEN SubSeq(s, 1, k) \o collapseNewlines(SubSeq(s, k + 1, Len(s)))
       ELSE <<Head(s)>> \o collapseNewlines(Tail(s))

\* String.prototype.padEnd with spaces
padEnd(s, w) == s \o repeat(<<" ">>, w - Len(s))

----------------------------------------------------------------------------
(* The DOM: nodes are values.  An element has an upper-case tagName, its    *)
(* attributes and its ordered childNodes.  A comment node stands for a run  *)
(* of n adjacent comment nodes.  A "backref" child is a child link that     *)
(* leads back to the n-th enclosing element (1 = the element itself): it    *)
(* makes the node its own descendant.                                       *)

NoAttrs == [href |-> <<>>, src |-> <<>>, alt |-> <<>>, title |-> <<>>, class |-> <<>>]

Text(t) ==
  [type |-> "text", tag |-> "#text", attrs |-> NoAttrs, kids |-> <<>>, text |-> t, n |-> 1]

Elem(tag, attrs, kids) ==
  [type |-> "element", tag |-> tag, attrs |-> attrs, kids |-> kids, text |-> <<>>, n |-> 1]

El(tag, kids) == Elem(tag, NoAttrs, kids)

Comments(k) ==
  [type |-> "comment", tag |-> "#comment", attrs |-> NoAttrs, kids |-> <<>>, text |-> <<>>, n |-> k]

BackRef(k) ==
  [type |-> "backref", tag |-> "#backref", attrs |-> NoAttrs, kids |-> <<>>, text |-> <<>>, n |-> k]

\* tagName.toLowerCase()
toLowerCase(t) ==
  CASE t = "DIV" -> "div"   [] t = "SPAN" -> "span" [] t = "P" -> "p"
    [] t = "H1" -> "h1"     [] t = "H2" -> "h2"     [] t = "H3" -> "h3"
    [] t = "H4" -> "h4"     [] t = "H5" -> "h5"     [] t = "H6" -> "h6"
    [] t = "SECTION" -> "section" [] t = "ARTICLE" -> "article"
    [] t = "UL" -> "ul"     [] t = "OL" -> "ol"     [] t = "LI" -> "li"
    [] t = "A" -> "a"       [] t = "IMG" -> "img"   [] t = "B" -> "b"
    [] t = "STRONG" -> "strong" [] t = "EM" -> "em" [] t = "I" -> "i"
    [] t = "CODE" -> "code" [] t = "PRE" -> "pre"   [] t = "BR" -> "br"
    [] t = "HR" -> "hr"     [] t = "BLOCKQUOTE" -> "blockquote"
    [] t = "TABLE" -> "table" [] t = "THEAD" -> "thead" [] t = "TBODY" -> "tbody"
    [] t = "TR" -> "tr"     [] t = "TH" -> "th"     [] t = "TD" -> "td"
    [] t = "DL" -> "dl"     [] t = "DT" -> "dt"     [] t = "DD" -> "dd"
    [] OTHER -> t

\* Node.textContent: the text of the text nodes below, in document order
RECURSIVE textContent(_)
textContent(node) ==
  IF node.type = "text" THEN node.text
  ELSE IF node.type = "element"
       THEN LET RECURSIVE cat(_)
                cat(ks) == IF ks = <<>> THEN <<>>
                           ELSE textContent(Head(ks)) \o cat(Tail(ks))
            IN cat(node.kids)
       ELSE <<>>

\* the element descendants of a node in document order, each with the tagName
\* of its parent element: what querySelectorAll('*') walks over
RECURSIVE descendants(_)
descendants(node) ==
  LET RECURSIVE walk(_)
      walk(ks) ==
        IF ks = <<>> THEN <<>>
        ELSE LET k == Head(ks) IN
             (IF k.type = "element"
              THEN <<[el |-> k, parent |-> node.tag]>> \o descendants(k)
              ELSE <<>>) \o walk(Tail(ks))
  IN walk(node.kids)

\* SelectSeq with the test on the element's lower-case tag
matching(ds, tags) == SelectSeq(ds, LAMBDA d : toLowerCase(d.el.tag) \in tags)

\* element.querySelectorAll(<tag list>)
querySelectorAll(node, tags) == matching(descendants(node), tags)

\* element.querySelector(<tag>): the first match in document order, or null
querySelector(node, tags) ==
  LET m == querySelectorAll(node, tags) IN
  IF m = <<>> THEN [found |-> FALSE, el |-> node] ELSE [found |-> TRUE, el |-> m[1].el]

\* element.children: the child elements
children(node) == SelectSeq(node.kids, LAMBDA k : k.type = "element")

\* number of nodes below a node (what a TreeWalker with SHOW_ALL steps through)
RECURSIVE size(_)
size(node) ==
  LET RECURSIVE sum(_)
      sum(ks) == IF ks = <<>> THEN 0 ELSE size(Head(ks)) + sum(Tail(ks))
  IN (IF node.type = "comment" THEN node.n ELSE 1) + sum(node.kids)

\* a Map as the sequence of its entries in insertion order
mapHas(m, k) == \E i \in 1..Len(m) : m[i].key = k

mapGet(m, k) == LET i == CHOOSE i \in 1..Len(m) : m[i].key = k IN m[i].value

\* Map.prototype.set: an existing key keeps its place and takes the new value
mapSet(m, k, v) ==
  IF mapHas(m, k)
  THEN [i \in 1..Len(m) |-> IF m[i].key = k THEN [key |-> k, value |-> v] ELSE m[i]]
  ELSE Append(m, [key |-> k, value |-> v])

\* Map.prototype.delete
mapDelete(m, k) == SelectSeq(m, LAMBDA e : e.key # k)

----------------------------------------------------------------------------
(* HTMLToMarkdownParser *)

\* constructor: the default options
DefaultOptions ==
  [headingStyle |-> "atx", bulletListMarker |-> "-", codeBlockStyle |-> "fenced",
   linkStyle |-> "inline", emDelimiter |-> <<"*">>, strongDelimiter |-> <<"*", "*">>,
   preserveWhitespace |-> FALSE,
   chunkSize |-> 1000, cacheSize |-> 100, lazyLoad |-> TRUE, streamingMode |-> FALSE]

\* this.state as the constructor and convert set it
NewState ==
  [listStack |-> <<>>, blockquoteDepth |-> 0, preformatted |-> FALSE,
   references |-> <<>>, referenceCounter |-> 0]

\* The context a conversion runs in: this.state, and what the JavaScript
\* runtime holds: the nesting depth of processNode calls, the chain of
\* elements whose children are being processed (to follow a child link that
\* leads back to an ancestor), the number of nodes visited so far, and the
\* record of what the handlers did.
NewContext == [state |-> NewState, depth |-> 0, path |-> <<>>, visited |-> 0, events |-> <<>>]

NoError == "none"
InvalidCount == "RangeError: Invalid count value"
StackOverflow == "RangeError: Maximum call stack size exceeded"

Ret(out, cx) == [out |-> out, cx |-> cx, err |-> NoError]

Throw(e, cx) == [out |-> <<>>, cx |-> cx, err |-> e]

\* an entry of the execution record
Event(ev, fn, cx, id, url) ==
  [ev |-> ev, fn |-> fn, ls |-> Len(cx.state.listStack), bq |-> cx.state.blockquoteDepth,
   pf |-> cx.state.preformatted, refs |-> cx.state.references, id |-> id, url |-> url]

record(cx, ev, fn) == [cx EXCEPT !.events = Append(@, Event(ev, fn, cx, 0, <<>>))]

\* the backtick character (the one character a TLA+ string cannot hold)
BT == "&#96;"

EscapeChars == {"\\", BT, "*", "_", "{", "}", "[", "]", "(", ")", "#", "+", "-", ".", "!", "|"}

RECURSIVE escapeAll(_)
escapeAll(s) ==
  IF s = <<>> THEN s
  ELSE (IF Head(s) \in EscapeChars THEN <<"\\", Head(s)>> ELSE <<Head(s)>>)
       \o escapeAll(Tail(s))

escapeMarkdown(text, cx) == IF cx.state.preformatted THEN text ELSE escapeAll(text)

processTextNode(node, cx) ==
  IF cx.state.preformatted THEN Ret(node.text, cx)
  ELSE IF ~options.preserveWhitespace
  THEN Ret(escapeMarkdown(collapseWhitespace(node.text), cx), cx)
  ELSE Ret(escapeMarkdown(node.text, cx), cx)

Origins == {"https://e.com", "https://o.org"}

BaseURI == <<"https://e.com">>

\* new URL(url, baseUrl).href: an absolute URL stays, a path is put on the base
resolveUrl(url, baseUrl) == IF Head(url) \in Origins THEN url ELSE baseUrl \o url

WordChars == {"a", "b", "c", "j", "s", "x", "_", "0", "1", "2"}

RECURSIVE wordPrefix(_)
wordPrefix(s) ==
  IF s # <<>> /\ Head(s) \in WordChars THEN <<Head(s)>> \o wordPrefix(Tail(s)) ELSE <<>>

\* className.match(/language-(\w+)/): the class is held as the token
\* "language-" followed by the characters after it, or as other characters
detectLanguage(element) ==
  IF /\ Len(element.attrs.class) >= 2
     /\ element.attrs.class[1] = "language-"
     /\ element.attrs.class[2] \in WordChars
  THEN wordPrefix(Tail(element.attrs.class)) ELSE <<>>

\* the largest member of a non-empty set of numbers (Math.max)
MaxOf(S) == CHOOSE m \in S : \A x \in S : x <= m

\* row[i] || ''
cellAt(row, i) == IF i <= Len(row) THEN row[i] ELSE <<>>

RECURSIVE formatCells(_, _, _, _)
formatCells(row, i, columnCount, columnWidths) ==
  IF i > columnCount THEN <<>>
  ELSE padEnd(cellAt(row, i), columnWidths[i]) \o <<" ", "|", " ">>
       \o formatCells(row, i + 1, columnCount, columnWidths)

RECURSIVE separatorCells(_, _, _)
separatorCells(i, columnCount, columnWidths) ==
  IF i > columnCount THEN <<>>
  ELSE repeat(<<"-">>, columnWidths[i]) \o <<" ", "|", " ">>
       \o separatorCells(i + 1, columnCount, columnWidths)

RECURSIVE formatRows(_, _, _, _, _)
formatRows(tableData, r, hasHeader, columnCount, columnWidths) ==
  IF r > Len(tableData) THEN <<>>
  ELSE <<"|", " ">> \o formatCells(tableData[r], 1, columnCount, columnWidths) \o <<"\n">>
       \o (IF r = 1 /\ hasHeader
           THEN <<"|", " ">> \o separatorCells(1, columnCount, columnWidths) \o <<"\n">>
           ELSE <<>>)
       \o formatRows(tableData, r + 1, hasHeader, columnCount, columnWidths)

\* the widths of the columns: at least 3, and the longest cell of each column
columnWidthsOf(tableData, columnCount) ==
  [i \in 1..columnCount |->
     MaxOf({3} \cup {Len(cellAt(tableData[r], i)) : r \in 1..Len(tableData)})]

formatTable(tableData, hasHeader) ==
  IF Len(tableData) = 0 THEN <<>>
  ELSE <<"\n", "\n">>
       \o formatRows(tableData, 1, hasHeader,
                     MaxOf({Len(tableData[r]) : r \in 1..Len(tableData)}),
                     columnWidthsOf(tableData,
                                    MaxOf({Len(tableData[r]) : r \in 1..Len(tableData)})))
       \o <<"\n">>

\* backticks + code + backticks
codeSpan(code) ==
  IF includes(code, BT) THEN <<BT, BT>> \o code \o <<BT, BT>> ELSE <<BT>> \o code \o <<BT>>

processInlineCode(element, cx) == Ret(codeSpan(textContent(element)), cx)

\* codeElement ? codeElement : element
codeSource(element) ==
  IF querySelector(element, {"code"}).found THEN querySelector(element, {"code"}).el
  ELSE element

indentLines(ls) == [i \in 1..Len(ls) |-> <<" ", " ", " ", " ">> \o ls[i]]

codeBlockText(content, language) ==
  IF options.codeBlockStyle = "fenced"
  THEN <<"\n", "\n", BT, BT, BT>> \o language \o <<"\n">> \o content
       \o <<"\n", BT, BT, BT, "\n", "\n">>
  ELSE <<"\n", "\n">> \o join(indentLines(split(content, "\n")), <<"\n">>) \o <<"\n", "\n">>

\* this.state.preformatted = v
setPreformatted(cx, v) == [cx EXCEPT !.state.preformatted = v]

\* the flag is set, the content and the language are read, the flag is put
\* back to the value it had
processCodeBlock(element, cx) ==
  Ret(codeBlockText(textContent(codeSource(element)), detectLanguage(codeSource(element))),
      record(setPreformatted(setPreformatted(record(cx, "enter", "processCodeBlock"), TRUE),
                             cx.state.preformatted),
             "exit", "processCodeBlock"))

imageText(alt, absoluteUrl, title) ==
  <<"!", "[">> \o alt \o <<"]", "(">> \o absoluteUrl
  \o (IF title # <<>> THEN <<" ", "\"">> \o title \o <<"\"">> ELSE <<>>) \o <<")">>

processImage(element, cx) ==
  IF element.attrs.src = <<>> THEN Ret(<<>>, cx)
  ELSE Ret(imageText(element.attrs.alt, resolveUrl(element.attrs.src, BaseURI),
                     element.attrs.title), cx)

RECURSIVE processNode(_, _)

\* the child a child link stands for: the node itself, or the enclosing
\* element it leads back to (path ends with the element being processed)
childOf(k, path) ==
  IF k.type = "backref" /\ k.n <= Len(path) THEN path[Len(path) - k.n + 1] ELSE k

\* the chain of elements above that child
pathOf(k, path) ==
  IF k.type = "backref" /\ k.n <= Len(path) THEN SubSeq(path, 1, Len(path) - k.n) ELSE path

withPath(cx, path) == [cx EXCEPT !.path = path]

RECURSIVE eachChild(_, _, _, _)
\* the children ks still to process, the output so far, the result r of the
\* child just processed
afterChild(ks, acc, path, r) ==
  IF r.err # NoError THEN r
  ELSE eachChild(ks, acc \o r.out, path, withPath(r.cx, path))

eachChild(ks, acc, path, cx) ==
  IF ks = <<>> THEN Ret(acc, cx)
  ELSE afterChild(Tail(ks), acc, path,
                  processNode(childOf(Head(ks), path), withPath(cx, pathOf(Head(ks), path))))

leavePath(r, path) == [r EXCEPT !.cx.path = path]

\* the children processed from the last to the first
RECURSIVE reversed(_)
reversed(ks) == IF ks = <<>> THEN <<>> ELSE Append(reversed(Tail(ks)), Head(ks))

processChildrenReversed(element, cx) ==
  leavePath(eachChild(reversed(element.kids), <<>>, Append(cx.path, element),
                      withPath(cx, Append(cx.path, element))),
            cx.path)

\* Array.from(element.childNodes).map(child => this.processNode(child)).join('')
processChildren(element, cx) ==
  leavePath(eachChild(element.kids, <<>>, Append(cx.path, element),
                      withPath(cx, Append(cx.path, element))),
            cx.path)

\* the rest of a handler that begins with processChildren: an exception
\* passes through, else the handler goes on with the output and the context
andThen(r, Rest(_, _)) == IF r.err # NoError THEN r ELSE Rest(r.out, r.cx)

NL2 == <<"\n", "\n">>

atxHeading(content, level) == NL2 \o repeat(<<"#">>, level) \o <<" ">> \o content \o NL2

headingText(content, level) ==
  IF content = <<>> THEN <<>>
  ELSE IF options.headingStyle = "atx" THEN atxHeading(content, level)
  ELSE IF level = 1
       THEN NL2 \o content \o <<"\n">> \o repeat(<<"=">>, Len(content)) \o NL2
  ELSE IF level = 2
       THEN NL2 \o content \o <<"\n">> \o repeat(<<"-">>, Len(content)) \o NL2
  ELSE atxHeading(content, level)

processHeading(element, level, cx) ==
  andThen(processChildren(element, cx), LAMBDA out, c : Ret(headingText(trim(out), level), c))

\* this.state.listStack.push({ type, counter: 0 })
pushList(cx, type) ==
  [cx EXCEPT !.state.listStack = Append(@, [type |-> type, counter |-> 0])]

\* this.state.listStack.pop()
popList(cx) == [cx EXCEPT !.state.listStack = SubSeq(@, 1, Len(@) - 1)]

listText(content, cx) ==
  IF Len(cx.state.listStack) = 0 THEN Ret(NL2 \o trim(content) \o NL2, cx)
  ELSE Ret(<<"\n">> \o content, cx)

\* processList after processChildren: an exception leaves the frame pushed
listReturn(r) ==
  IF r.err # NoError THEN [r EXCEPT !.cx = record(r.cx, "throw", "processList")]
  ELSE listText(r.out, record(popList(r.cx), "exit", "processList"))

processList(element, type, cx) ==
  listReturn(processChildren(element, pushList(record(cx, "enter", "processList"), type)))

\* one counter for all the lists: the outermost frame counts every item
countItemOutermost(cx, depth) ==
  IF cx.state.listStack[depth + 1].type = "ordered"
  THEN [cx EXCEPT !.state.listStack[1].counter = @ + 1]
  ELSE cx

\* listInfo.counter++ for an ordered list
countItem(cx, depth) ==
  IF cx.state.listStack[depth + 1].type = "ordered"
  THEN [cx EXCEPT !.state.listStack[depth + 1].counter = @ + 1]
  ELSE cx

\* the marker, from listInfo after the count
markerOf(listInfo) ==
  IF listInfo.type = "ordered" THEN numToStr(listInfo.counter) \o <<".", " ">>
  ELSE <<options.bulletListMarker, " ">>

continuationLines(rest, indent) ==
  join([i \in 1..Len(rest) |->
          IF trim(rest[i]) # <<>> THEN indent \o <<" ", " ">> \o rest[i] ELSE <<>>],
       <<"\n">>)

itemLines(indent, marker, firstLine, remainingLines) ==
  indent \o marker \o firstLine
  \o (IF remainingLines # <<>> THEN <<"\n">> \o remainingLines ELSE <<>>) \o <<"\n">>

itemText(lines, indent, marker) ==
  itemLines(indent, marker, lines[1], continuationLines(Tail(lines), indent))

listItemAt(element, depth, cx) ==
  andThen(processChildren(element, cx),
          LAMBDA out, c : Ret(itemText(split(trim(out), "\n"), repeat(<<" ", " ">>, depth),
                                       markerOf(cx.state.listStack[depth + 1])), c))

processListItem(element, cx) ==
  IF Len(cx.state.listStack) - 1 < 0
  THEN Throw(InvalidCount, cx)       \* '  '.repeat(depth) with depth = -1
  ELSE listItemAt(element, Len(cx.state.listStack) - 1,
                  countItem(cx, Len(cx.state.listStack) - 1))

emphasisText(content, delimiter) ==
  IF content = <<>> THEN <<>> ELSE delimiter \o content \o delimiter

processEmphasis(element, type, cx) ==
  andThen(processChildren(element, cx),
          LAMBDA out, c :
            Ret(emphasisText(trim(out), IF type = "strong" THEN options.strongDelimiter
                                        ELSE options.emDelimiter), c))

\* const id = ++this.state.referenceCounter; this.state.references.set(id, url)
register(cx, id, absoluteUrl) ==
  [cx EXCEPT !.state.referenceCounter = id,
             !.state.references = mapSet(@, id, absoluteUrl),
             !.events = Append(@, Event("link", "processLink", cx, id, absoluteUrl))]

linkText(href, text, absoluteUrl, cx) ==
  IF href = <<>> THEN Ret(text, cx)
  ELSE IF options.linkStyle = "inline"
  THEN Ret(<<"[">> \o text \o <<"]", "(">> \o absoluteUrl \o <<")">>, cx)
  ELSE Ret(<<"[">> \o text \o <<"]", "[">> \o numToStr(cx.state.referenceCounter + 1)
           \o <<"]">>,
           register(cx, cx.state.referenceCounter + 1, absoluteUrl))

\* processChildren(element).trim() || href
orElse(text, href) == IF text # <<>> THEN text ELSE href

processLink(element, cx) ==
  andThen(processChildren(element, cx),
          LAMBDA out, c : linkText(element.attrs.href, orElse(trim(out), element.attrs.href),
                                   resolveUrl(element.attrs.href, BaseURI), c))

quoteLines(ls, prefix) ==
  [i \in 1..Len(ls) |-> IF trim(ls[i]) # <<>> THEN prefix \o ls[i] ELSE trimRight(prefix)]

quoteText(content, cx) ==
  Ret(NL2 \o join(quoteLines(split(content, "\n"),
                             repeat(<<">", " ">>, cx.state.blockquoteDepth + 1)),
                  <<"\n">>) \o NL2, cx)

\* this.state.blockquoteDepth += d
quoteDepth(cx, d) == [cx EXCEPT !.state.blockquoteDepth = @ + d]

\* processBlockquote after processChildren: an exception leaves the depth raised
quoteReturn(r) ==
  IF r.err # NoError THEN [r EXCEPT !.cx = record(r.cx, "throw", "processBlockquote")]
  ELSE quoteText(trim(r.out), record(quoteDepth(r.cx, -1), "exit", "processBlockquote"))

processBlockquote(element, cx) ==
  quoteReturn(processChildren(element,
                              quoteDepth(record(cx, "enter", "processBlockquote"), 1)))

RECURSIVE eachCell(_, _, _)
\* cells.map(cell => this.processChildren(cell).trim())
afterCell(cells, rowData, r) ==
  IF r.err # NoError THEN r ELSE eachCell(cells, Append(rowData, trim(r.out)), r.cx)

eachCell(cells, rowData, cx) ==
  IF cells = <<>> THEN Ret(rowData, cx)
  ELSE afterCell(Tail(cells), rowData, processChildren(Head(cells).el, cx))

\* row.parentElement.tagName === 'THEAD' || cells[0]?.tagName === 'TH'
isHeaderRow(row, cells) == row.parent = "THEAD" \/ (cells # <<>> /\ cells[1].el.tag = "TH")

RECURSIVE eachRow(_, _, _, _)
afterRow(rows, tableData, hasHeader, r) ==
  IF r.err # NoError THEN r ELSE eachRow(rows, Append(tableData, r.out), hasHeader, r.cx)

eachRow(rows, tableData, hasHeader, cx) ==
  IF rows = <<>> THEN Ret(formatTable(tableData, hasHeader), cx)
  ELSE afterRow(Tail(rows), tableData,
                hasHeader \/ isHeaderRow(Head(rows), querySelectorAll(Head(rows).el, {"th", "td"})),
                eachCell(querySelectorAll(Head(rows).el, {"th", "td"}), <<>>, cx))

processTable(element, cx) ==
  IF Len(querySelectorAll(element, {"tr"})) = 0 THEN Ret(<<>>, cx)
  ELSE eachRow(querySelectorAll(element, {"tr"}), <<>>, FALSE, cx)

\* content ? '\n\n' + content + '\n\n' : ''
paragraphText(content) == IF content = <<>> THEN <<>> ELSE NL2 \o content \o NL2

processParagraph(element, cx) ==
  andThen(processChildren(element, cx), LAMBDA out, c : Ret(paragraphText(trim(out)), c))

processDefinitionList(element, cx) ==
  andThen(processChildren(element, cx), LAMBDA out, c : Ret(NL2 \o trim(out) \o NL2, c))

processDefinitionTerm(element, cx) ==
  andThen(processChildren(element, cx),
          LAMBDA out, c : Ret(<<"\n", "\n", "*", "*">> \o trim(out) \o <<"*", "*", "\n">>, c))

processDefinition(element, cx) ==
  andThen(processChildren(element, cx),
          LAMBDA out, c : Ret(<<":", " ">> \o trim(out) \o <<"\n">>, c))

processTableRow(element, cx) == processChildren(element, cx)

processTableCell(element, isHeader, cx) == processChildren(element, cx)

\* elementHandlers[tagName] || elementHandlers.default
elementHandlers(tagName, element, cx) ==
  CASE tagName = "h1" -> processHeading(element, 1, cx)
    [] tagName = "h2" -> processHeading(element, 2, cx)
    [] tagName = "h3" -> processHeading(element, 3, cx)
    [] tagName = "h4" -> processHeading(element, 4, cx)
    [] tagName = "h5" -> processHeading(element, 5, cx)
    [] tagName = "h6" -> processHeading(element, 6, cx)
    [] tagName = "p" -> processParagraph(element, cx)
    [] tagName = "br" -> Ret(<<" ", " ", "\n">>, cx)
    [] tagName = "ul" -> processList(element, "unordered", cx)
    [] tagName = "ol" -> processList(element, "ordered", cx)
    [] tagName = "li" -> processListItem(element, cx)
    [] tagName \in {"strong", "b"} -> processEmphasis(element, "strong", cx)
    [] tagName \in {"em", "i"} -> processEmphasis(element, "em", cx)
    [] tagName = "a" -> processLink(element, cx)
    [] tagName = "img" -> processImage(element, cx)
    [] tagName = "code" -> processInlineCode(element, cx)
    [] tagName = "pre" -> processCodeBlock(element, cx)
    [] tagName = "blockquote" -> processBlockquote(element, cx)
    [] tagName = "table" -> processTable(element, cx)
    [] tagName \in {"thead", "tbody"} -> processChildren(element, cx)
    [] tagName = "tr" -> processTableRow(element, cx)
    [] tagName = "th" -> processTableCell(element, TRUE, cx)
    [] tagName = "td" -> processTableCell(element, FALSE, cx)
    [] tagName = "hr" -> Ret(<<"\n", "\n", "-", "-", "-", "\n", "\n">>, cx)
    [] tagName = "dl" -> processDefinitionList(element, cx)
    [] tagName = "dt" -> processDefinitionTerm(element, cx)
    [] tagName = "dd" -> processDefinition(element, cx)
    [] OTHER -> processChildren(element, cx)

processElementNode(element, cx) == elementHandlers(toLowerCase(element.tag), element, cx)

\* a call entered: one more level of the JavaScript call stack, one more
\* node visited (a run of n comment nodes is n visits)
enter(node, cx) == [cx EXCEPT !.depth = @ + 1, !.visited = @ + node.n]

leave(r, depth) == [r EXCEPT !.cx.depth = depth]

\* One processNode call is one more level of the JavaScript call stack; the
\* engine throws RangeError when the stack is exhausted.
processNode(node, cx) ==
  IF cx.depth >= MaxCallDepth THEN Throw(StackOverflow, cx)
  ELSE IF node.type = "text" THEN leave(processTextNode(node, enter(node, cx)), cx.depth)
  ELSE IF node.type = "element"
       THEN leave(processElementNode(node, enter(node, cx)), cx.depth)
  ELSE leave(Ret(<<>>, enter(node, cx)), cx.depth)

\* the state of the previous conversion, kept
resetStateKept(old) == old

\* convert, first statement: this.state is replaced by a fresh state
resetState(old) == NewState

referenceLines(refs) ==
  join([i \in 1..Len(refs) |->
          <<"[">> \o numToStr(refs[i].key) \o <<"]", ":", " ">> \o refs[i].value],
       <<"\n">>)

\* convert after processNode: the trimmed Markdown, and the link definitions
convertReturn(r) ==
  IF r.err # NoError THEN r
  ELSE IF options.linkStyle = "reference" /\ Len(r.cx.state.references) > 0
  THEN Ret(trim(r.out) \o NL2 \o referenceLines(r.cx.state.references), r.cx)
  ELSE Ret(trim(r.out), r.cx)

\* HTMLToMarkdownParser.convert on a parser whose state is self: the returned
\* string (or the exception that leaves it) and this.state as the call leaves it
convert(self, htmlElement) ==
  convertReturn(processNode(htmlElement, [NewContext EXCEPT !.state = resetState(self)]))

----------------------------------------------------------------------------
(* LRUCache: this.cache is a Map, held as its entries in insertion order *)

\* LRUCache.get: null when the key is absent, else the value, moved to the end
lruGet(c, key) ==
  IF ~mapHas(c, key) THEN [found |-> FALSE, value |-> <<>>, cache |-> c]
  ELSE [found |-> TRUE, value |-> mapGet(c, key),
        cache |-> mapSet(mapDelete(c, key), key, mapGet(c, key))]

\* LRUCache.set
lruSet(c, key, value, maxSize) ==
  IF Len(c) >= maxSize /\ Len(c) > 0 THEN mapSet(mapDelete(c, c[1].key), key, value)
  ELSE mapSet(c, key, value)

----------------------------------------------------------------------------
(* PerformanceOptimizedParser *)

\* String.prototype.charCodeAt for the characters of the model's texts
charCodeAt(c) ==
  CASE c = "a" -> 97 [] c = "b" -> 98 [] c = "c" -> 99 [] c = " " -> 32
    [] c = "\n" -> 10 [] c = "\t" -> 9 [] c = "*" -> 42 [] c = BT -> 96
    [] OTHER -> 120

\* the first characters of the text that enter the cache key
KeyTextLength == 100

\* simpleHash: hash = ((hash << 5) - hash) + char, kept to 32 bits.  The
\* 32-bit value is held as its two 16-bit halves <<high, low>>, which
\* toString(36) maps one-to-one to the string that enters the key.
hashStep(h, low) == <<(h[1] * 31 + (low \div 65536)) % 65536, low % 65536>>

RECURSIVE hashFrom(_, _, _)
hashFrom(str, i, h) ==
  IF i > Len(str) THEN h
  ELSE hashFrom(str, i + 1, hashStep(h, h[2] * 31 + charCodeAt(str[i])))

simpleHash(str) == hashFrom(str, 1, <<0, 0>>)

\* String.prototype.substring(0, n)
substring(str, n) == SubSeq(str, 1, IF Len(str) < n THEN Len(str) ELSE n)

tagNames(kids) == [i \in 1..Len(kids) |-> kids[i].tag]

\* generateCacheKey: tagName ':' hash ':' child tag names joined by ','
generateCacheKey(element) ==
  [tagName |-> element.tag,
   hash |-> simpleHash(substring(textContent(element), KeyTextLength)),
   childTags |-> tagNames(children(element))]

\* convertWithCache after a miss: r is what parser.convert(element) gave
cacheResult(r, cacheKey, c, s) ==
  IF r.err # NoError
  THEN [out |-> <<>>, err |-> r.err, hit |-> FALSE, cache |-> c, stats |-> s]
  ELSE [out |-> r.out, err |-> NoError, hit |-> FALSE,
        cache |-> lruSet(c, cacheKey, r.out, options.cacheSize),
        stats |-> [s EXCEPT !.nodesProcessed = @ + 1]]

\* convertWithCache after this.cache.get(cacheKey)
cacheLookup(element, cacheKey, got, s) ==
  IF got.found /\ got.value # <<>>      \* if (cached)
  THEN [out |-> got.value, err |-> NoError, hit |-> TRUE, cache |-> got.cache,
        stats |-> [s EXCEPT !.cacheHits = @ + 1]]
  ELSE cacheResult(convert(NewState, element),    \* new HTMLToMarkdownParser(this.options)
                   cacheKey, got.cache, s)

withKey(element, cacheKey, c, s) == cacheLookup(element, cacheKey, lruGet(c, cacheKey), s)

\* convertWithCache on cache c and statistics s: what it returns (or throws)
\* and what it leaves in the cache and the statistics
convertWithCache(element, c, s) == withKey(element, generateCacheKey(element), c, s)

\* the node counts that select the mode
StreamingThreshold == 10000
ChunkedThreshold == 1000
CountLimit == 10001

\* countNodes: the TreeWalker steps through the nodes below the root
countNodes(element) ==
  IF size(element) - 1 < CountLimit THEN size(element) - 1 ELSE CountLimit

RECURSIVE bufferLength(_)
bufferLength(buffer) ==
  IF buffer = <<>> THEN 0 ELSE Head(buffer).n + bufferLength(Tail(buffer))

\* how many nodes of the run of comment nodes at the head of the queue go
\* into a buffer with the given room: one by one until the buffer is full
takeOf(head, room) ==
  IF head.type = "comment" /\ head.n > 1
  THEN (IF room < 1 THEN 1 ELSE IF room < head.n THEN room ELSE head.n)
  ELSE 1

\* queue.shift(): the node taken, and what is left of the run it came from
shifted(head, take) == IF head.type = "comment" THEN Comments(take) ELSE head

leftOf(head, take) ==
  IF head.type = "comment" /\ take < head.n THEN <<Comments(head.n - take)>> ELSE <<>>

\* createNodeStream, from one yield to the next: the buffer it yields and the
\* queue it keeps
RECURSIVE nextBuffer(_, _)
afterPush(b1, q1) ==
  IF bufferLength(b1) >= options.chunkSize THEN [buffer |-> b1, queue |-> q1]
  ELSE nextBuffer(q1, b1)

afterShift(queue, buffer, take) ==
  afterPush(Append(buffer, shifted(Head(queue), take)),
            leftOf(Head(queue), take) \o Tail(queue) \o shifted(Head(queue), take).kids)

nextBuffer(queue, buffer) ==
  IF queue = <<>> THEN [buffer |-> buffer, queue |-> queue]
  ELSE afterShift(queue, buffer, takeOf(Head(queue), options.chunkSize - bufferLength(buffer)))

BlockTags == {"p", "h1", "h2", "h3", "h4", "h5", "h6", "div", "section", "article",
              "blockquote", "pre", "ul", "ol", "table"}

\* the content-size budget of one group
ChunkBudget == 10000

elementsOf(found) == [i \in 1..Len(found) |-> found[i].el]

RECURSIVE eachBlock(_, _, _, _)
\* blockElements.forEach: full is the test of line 141 for the block at hand
pushBlock(bs, chunks, currentChunk, currentSize, full) ==
  eachBlock(Tail(bs),
            IF full THEN Append(chunks, currentChunk) ELSE chunks,
            Append(IF full THEN <<>> ELSE currentChunk, Head(bs)),
            (IF full THEN 0 ELSE currentSize) + Len(textContent(Head(bs))))

eachBlock(bs, chunks, currentChunk, currentSize) ==
  IF bs = <<>>
  THEN (IF Len(currentChunk) > 0 THEN Append(chunks, currentChunk) ELSE chunks)
  ELSE pushBlock(bs, chunks, currentChunk, currentSize,
                 currentSize + Len(textContent(Head(bs))) > ChunkBudget
                 /\ Len(currentChunk) > 0)

\* splitIntoChunks
splitIntoChunks(element) ==
  eachBlock(elementsOf(querySelectorAll(element, BlockTags)), <<>>, <<>>, 0)

\* processChunk: the container the clones of the nodes are appended to
chunkContainer(nodes) == El("DIV", nodes)

\* a node handed to appendChild: the node, and whether it has a parent
Child(node, attached) == [node |-> node, attached |-> attached]

\* the node itself, which sits in the caller's tree
cloneNodeOmitted(node) == Child(node, TRUE)

\* node.cloneNode(true): a copy of the subtree, which has no parent
cloneNode(node) == Child(node, FALSE)

\* a tree without the first subtree equal to node; a tree that is the node
\* itself is gone from where it was
RECURSIVE without(_, _), withoutAmong(_, _)
without(tree, node) ==
  IF tree = node THEN Comments(0)
  ELSE [tree EXCEPT !.kids = withoutAmong(tree.kids, node)]

withoutAmong(ks, node) ==
  IF ks = <<>> THEN <<>>
  ELSE IF Head(ks) = node THEN Tail(ks)
  ELSE IF without(Head(ks), node) # Head(ks) THEN <<without(Head(ks), node)>> \o Tail(ks)
  ELSE <<Head(ks)>> \o withoutAmong(Tail(ks), node)

\* container.appendChild(child), seen from the caller's tree: a child that has
\* a parent is taken out of it
appendChild(tree, child) == IF child.attached THEN without(tree, child.node) ELSE tree

\* processChunk, lines 166-168, seen from the caller's tree
RECURSIVE appendClones(_, _)
appendClones(tree, nodes) ==
  IF nodes = <<>> THEN tree
  ELSE appendClones(appendChild(tree, cloneNode(Head(nodes))), Tail(nodes))

\* mergeResults
mergeResults(results) == collapseNewlines(join(results, NL2))

----------------------------------------------------------------------------
(* Input documents: every tree of at most MaxNodes nodes over the element   *)
(* kinds and texts below.                                                   *)

Texts == {<<"a">>, <<"b">>}

Href(u) == [NoAttrs EXCEPT !.href = u]

Src(u) == [NoAttrs EXCEPT !.src = u]

\* element kinds: tagName and attributes
Kinds ==
  {[tag |-> t, attrs |-> NoAttrs] :
      t \in {"DIV", "X-WIDGET", "P", "UL", "OL", "LI", "BLOCKQUOTE", "PRE", "TABLE", "A", "IMG"}}
  \cup {[tag |-> "A", attrs |-> Href(<<"/x">>)], [tag |-> "A", attrs |-> Href(<<"/y">>)],
        [tag |-> "IMG", attrs |-> Src(<<"/i">>)]}

\* the trees of exactly n nodes with elements of the given kinds and the
\* given further leaves, and the sequences of such trees of n nodes in all
RECURSIVE TreesOf(_, _, _), ForestsOf(_, _, _)
TreesOf(n, kinds, leaves) ==
  IF n = 1 THEN leaves \cup {Elem(k.tag, k.attrs, <<>>) : k \in kinds}
  ELSE {Elem(k.tag, k.attrs, f) : k \in kinds, f \in ForestsOf(n - 1, kinds, leaves)}

ForestsOf(n, kinds, leaves) ==
  IF n = 0 THEN {<<>>}
  ELSE UNION {{<<t>> \o f : t \in TreesOf(k, kinds, leaves),
                            f \in ForestsOf(n - k, kinds, leaves)} : k \in 1..n}

TextLeaves == {Text(t) : t \in Texts}

\* every child link that leads back leads to an element that encloses it, and
\* none lies in a subtree that is read through textContent or querySelectorAll
RECURSIVE backRefsOk(_, _, _)
backRefsOk(node, depth, allowed) ==
  IF node.type = "backref" THEN allowed /\ node.n <= depth
  ELSE \A i \in 1..Len(node.kids) :
         backRefsOk(node.kids[i], depth + 1, allowed /\ node.tag \notin {"TABLE", "PRE"})

RECURSIVE hasBackRef(_)
hasBackRef(node) ==
  node.type = "backref" \/ \E i \in 1..Len(node.kids) : hasBackRef(node.kids[i])

\* the documents without a cycle
Docs ==
  {d \in UNION {TreesOf(n, Kinds, TextLeaves) : n \in 1..MaxNodes} : d.type = "element"}

\* the documents in which some node is its own descendant
CyclicDocs ==
  {d \in UNION {TreesOf(n, Kinds, TextLeaves \cup {BackRef(1), BackRef(2)}) :
                  n \in 1..MaxNodes} :
     d.type = "element" /\ hasBackRef(d) /\ backRefsOk(d, 0, TRUE)}

\* documents converted before the one under study, on the same parser: one
\* whose conversion throws, one that registers two links, one plain
FirstDocs ==
  {El("BLOCKQUOTE", <<El("LI", <<Text(<<"a">>)>>)>>),
   El("DIV", <<Elem("A", Href(<<"/x">>), <<>>), Elem("A", Href(<<"/y">>), <<>>)>>),
   El("P", <<Text(<<"a">>)>>)}

----------------------------------------------------------------------------
(* Specification of the parser on its own: one HTMLToMarkdownParser, used   *)
(* for one conversion after another.                                        *)

NoNode == Comments(0)

\* the frame of a convertOptimized call: where it stands (pc), the mode it
\* chose, the node stream's queue (streaming), the groups still to process
\* (chunked), the fragments collected, and what the call returned or threw;
\* counted and rendered count its countNodes and convertWithCache calls,
\* written and hits are the cache keys these wrote and found
Idle ==
  [pc |-> "idle", mode |-> "none", element |-> NoNode, nodeCount |-> 0, queue |-> <<>>,
   chunks |-> <<>>, results |-> <<>>, out |-> <<>>, err |-> NoError,
   counted |-> 0, rendered |-> 0, written |-> {}, hits |-> {}]

NoStats == [nodesProcessed |-> 0, cacheHits |-> 0]

\* the public calls made on the PerformanceOptimizedParser (api, and the
\* element of the first of them) and its convertWithCache calls: how many,
\* and the element, outcome and cache hit of the last
NoHist ==
  [api |-> 0, first |-> NoNode, calls |-> 0, element |-> NoNode, out |-> <<>>,
   err |-> NoError, hit |-> FALSE]

\* no WorkerBasedParser has been constructed
NoWorker ==
  [status |-> "none", onmessage |-> 0, onerror |-> 0, promises |-> <<>>,
   inbox |-> <<>>, outbox |-> <<>>, thrown |-> {}]

\* no table has been handed to normalizeTable
NoTable == [pc |-> "none", given |-> <<>>, rows |-> <<>>]

\* no string has been handed over
NoText == [pc |-> "none", fn |-> "none", input |-> <<>>, output |-> <<>>]

\* no LRUCache has been constructed on its own
NoLru == [maxSize |-> 0, cache |-> <<>>, recency |-> <<>>, op |-> "none", key |-> "none"]

\* no tab with the extension's content script
NoExt ==
  [page |-> [kind |-> "none", readability |-> "none", scriptable |-> FALSE, elements |-> <<>>],
   scripts |-> 0, triggers |-> 0, inbox |-> <<>>, replies |-> <<>>, outbox |-> <<>>,
   converted |-> <<>>, opened |-> <<>>, answered |-> <<>>]

ParserOptions == {[DefaultOptions EXCEPT !.linkStyle = ls] : ls \in {"inline", "reference"}}

Init ==
  /\ options \in ParserOptions
  /\ input = NoNode
  /\ state = NewState
  /\ result = [err |-> NoError, value |-> <<>>]
  /\ run = [calls |-> 0, events |-> <<>>, visited |-> 0]
  /\ prev = "never"
  /\ cache = <<>>
  /\ stats = NoStats
  /\ call = Idle
  /\ hist = NoHist
  /\ worker = NoWorker
  /\ table = NoTable
  /\ sample = NoText
  /\ lru = NoLru
  /\ ext = NoExt

\* The model follows a parser through MaxCalls conversions, and past the
\* first one only when that one converted one of FirstDocs.
CanConvert == run.calls < MaxCalls /\ (run.calls > 0 => input \in FirstDocs)

\* parser.convert(el)
Converted(el, r) ==
  /\ input' = el
  /\ state' = r.cx.state
  /\ result' = [err |-> r.err, value |-> r.out]
  /\ run' = [calls |-> run.calls + 1, events |-> r.cx.events, visited |-> r.cx.visited]

Convert(el) ==
  /\ CanConvert
  /\ Converted(el, convert(state, el))
  /\ prev' = IF run.calls = 0 THEN "never"
             ELSE IF result.err = NoError THEN "returned" ELSE "threw"
  /\ UNCHANGED <<options, cache, stats, call, hist, aside>>

\* documents of the kinds the parser is written for: a heading and a
\* paragraph with emphasis, a list with a list inside an item, and an ordered
\* list with an ordered list of two items inside its first item
ScenarioDocs ==
  {El("DIV", <<El("H1", <<Text(<<"T", "i", "t", "l", "e">>)>>),
               El("P", <<Text(<<"H", "e", "l", "l", "o", " ">>),
                         El("STRONG", <<Text(<<"w", "o", "r", "l", "d">>)>>)>>)>>),
   El("OL", <<El("LI", <<Text(<<"a">>), El("UL", <<El("LI", <<Text(<<"b">>)>>)>>)>>),
              El("LI", <<Text(<<"c">>)>>)>>),
   El("OL", <<El("LI", <<Text(<<"a">>), El("OL", <<El("LI", <<Text(<<"b">>)>>),
                                                   El("LI", <<Text(<<"c">>)>>)>>)>>),
              El("LI", <<Text(<<"d">>)>>)>>)}

Next == CanConvert /\ \E el \in Docs \cup CyclicDocs \cup ScenarioDocs : Convert(el)

Spec == Init /\ [][Next]_vars

----------------------------------------------------------------------------
(* Specification of the PerformanceOptimizedParser: one parser with its     *)
(* cache, convertOptimized and convertWithCache called on it.               *)

\* runs of 1000 and of 10000 adjacent comment nodes: documents at the two
\* thresholds and, with one more node, past them
SchedKinds ==
  {[tag |-> t, attrs |-> NoAttrs] : t \in {"DIV", "P"}}
  \cup {[tag |-> "A", attrs |-> Href(<<"/x">>)]}

SchedLeaves == {Text(<<"a">>), Comments(ChunkedThreshold), Comments(StreamingThreshold)}

\* documents with nesting: a list, a block inside a block and a code block
\* with blank lines, the last two in documents past the chunked threshold
StructuredDocs ==
  {El("UL", <<El("LI", <<Text(<<"a">>)>>)>>),
   El("DIV", <<Comments(ChunkedThreshold), El("DIV", <<El("P", <<Text(<<"a">>)>>)>>)>>),
   El("DIV", <<Comments(ChunkedThreshold),
               El("PRE", <<Text(<<"a", "\n", "\n", "\n", "b">>)>>)>>)}

SchedDocs ==
  {d \in UNION {TreesOf(n, SchedKinds, SchedLeaves) : n \in 1..MaxNodes} : d.type = "element"}
  \cup StructuredDocs

\* documents handed to the first call when a second call follows
SchedFirst ==
  {El("DIV", <<El("P", <<Text(<<"a">>)>>)>>),
   El("DIV", <<Elem("A", Href(<<"/x">>), <<Text(<<"a">>)>>)>>)}

SchedOptions ==
  {[DefaultOptions EXCEPT !.chunkSize = c[1], !.cacheSize = c[2],
                          !.streamingMode = sm, !.linkStyle = ls] :
     c \in {<<1000, 100>>, <<2, 100>>, <<0, 100>>, <<-1, 100>>,
            <<1000, 1>>, <<1000, 0>>, <<1000, -1>>},
     sm \in BOOLEAN, ls \in {"inline", "reference"}}

SchedInit ==
  /\ options \in SchedOptions
  /\ input = NoNode
  /\ state = NewState
  /\ result = [err |-> NoError, value |-> <<>>]
  /\ run = [calls |-> 0, events |-> <<>>, visited |-> 0]
  /\ prev = "never"
  /\ cache = <<>>
  /\ stats = NoStats
  /\ call = Idle
  /\ hist = NoHist
  /\ worker = NoWorker
  /\ table = NoTable
  /\ sample = NoText
  /\ lru = NoLru
  /\ ext = NoExt

\* The model follows a parser through MaxCalls public calls, and past the
\* first one only when that one was handed one of SchedFirst.  A document
\* with a long run of comment nodes is streamed only in chunks of the
\* default size.
CanCall ==
  /\ call.pc \in {"idle", "done"}
  /\ hist.api < MaxCalls
  /\ hist.api > 0 => hist.first \in SchedFirst

Feasible(el) == size(el) > ChunkedThreshold => options.chunkSize >= ChunkedThreshold

called(el) == [hist EXCEPT !.api = @ + 1, !.first = IF hist.api = 0 THEN el ELSE @]

\* what a convertWithCache call r on element el leaves in the history
rendered(h, el, r) ==
  [h EXCEPT !.calls = @ + 1, !.element = el, !.out = r.out, !.err = r.err, !.hit = r.hit]

\* the cache, the statistics and the history after a convertWithCache call r
Rendered(h, el, r) ==
  /\ cache' = r.cache
  /\ stats' = r.stats
  /\ hist' = rendered(h, el, r)

\* the frame of the call that made the convertWithCache call r on element el:
\* the key is found (line 182) or, after a conversion that returned, written
\* (line 192)
logged(frame, el, r) ==
  [frame EXCEPT !.hits = IF r.hit THEN @ \cup {generateCacheKey(el)} ELSE @,
                !.written = IF ~r.hit /\ r.err = NoError
                            THEN @ \cup {generateCacheKey(el)} ELSE @]

\* parser.convertWithCache(el), called from outside
ConvertWithCache(el) ==
  /\ CanCall
  /\ Rendered(called(el), el, convertWithCache(el, cache, stats))
  /\ call' = Idle
  /\ UNCHANGED <<options, input, state, result, run, prev, aside>>

\* convertOptimized, lines 42-45: the regular conversion of a small document
Regular(frame, el, r) ==
  /\ call' = logged([frame EXCEPT !.pc = "done", !.mode = "direct", !.out = r.out,
                                  !.err = r.err, !.rendered = 1], el, r)
  /\ Rendered(called(el), el, r)

\* the mode chosen with the thresholds themselves counted in
SelectAtLeast(frame, el) ==
  IF frame.nodeCount >= StreamingThreshold \/ options.streamingMode
  THEN /\ call' = [frame EXCEPT !.pc = "streaming", !.mode = "streaming", !.queue = <<el>>]
       /\ hist' = called(el)
       /\ UNCHANGED <<cache, stats>>
  ELSE IF frame.nodeCount >= ChunkedThreshold
  THEN /\ call' = [frame EXCEPT !.pc = "chunked", !.mode = "chunked",
                                !.chunks = splitIntoChunks(el)]
       /\ hist' = called(el)
       /\ UNCHANGED <<cache, stats>>
  ELSE Regular(frame, el, convertWithCache(el, cache, stats))

\* convertOptimized after countNodes
Select(frame, el) ==
  IF frame.nodeCount > StreamingThreshold \/ options.streamingMode
  THEN /\ call' = [frame EXCEPT !.pc = "streaming", !.mode = "streaming", !.queue = <<el>>]
       /\ hist' = called(el)
       /\ UNCHANGED <<cache, stats>>
  ELSE IF frame.nodeCount > ChunkedThreshold
  THEN /\ call' = [frame EXCEPT !.pc = "chunked", !.mode = "chunked",
                                !.chunks = splitIntoChunks(el)]
       /\ hist' = called(el)
       /\ UNCHANGED <<cache, stats>>
  ELSE Regular(frame, el, convertWithCache(el, cache, stats))

\* parser.convertOptimized(el), up to its first await: the mode is chosen,
\* and a small document is converted and returned
ConvertOptimized(el) ==
  /\ CanCall
  /\ Feasible(el)
  /\ Select([Idle EXCEPT !.element = el, !.nodeCount = countNodes(el), !.counted = 1], el)
  /\ input' = el
  /\ UNCHANGED <<options, state, result, run, prev, aside>>

\* processChunk(nodes) gave r, and the loop goes on to the next group at once
ProcessedWithoutYield(container, r, queue, chunks) ==
  /\ call' = IF r.err # NoError
             THEN [call EXCEPT !.pc = "done", !.err = r.err, !.rendered = @ + 1]
             ELSE logged([call EXCEPT !.pc = call.mode, !.queue = queue, !.chunks = chunks,
                                      !.results = Append(@, r.out), !.rendered = @ + 1],
                         container, r)
  /\ Rendered(hist, container, r)

\* processChunk(nodes) gave r: a rejection ends the call, else the fragment
\* is collected and the call waits in yieldToBrowser
Processed(container, r, queue, chunks) ==
  /\ call' = IF r.err # NoError
             THEN [call EXCEPT !.pc = "done", !.err = r.err, !.rendered = @ + 1]
             ELSE logged([call EXCEPT !.pc = "yield", !.queue = queue, !.chunks = chunks,
                                      !.results = Append(@, r.out), !.rendered = @ + 1],
                         container, r)
  /\ Rendered(hist, container, r)

ProcessChunk(nodes, queue, chunks) ==
  /\ Processed(chunkContainer(nodes), convertWithCache(chunkContainer(nodes), cache, stats),
               queue, chunks)
  /\ input' = appendClones(input, nodes)

Streamed(nb) ==
  IF nb.buffer = <<>>
  THEN /\ call' = [call EXCEPT !.pc = "done", !.out = join(call.results, <<>>)]
       /\ UNCHANGED <<cache, stats, hist, input>>
  ELSE ProcessChunk(nb.buffer, nb.queue, call.chunks)

\* streamingConvert, one turn of its loop: the stream yields its next buffer,
\* processChunk converts it, and the call waits in yieldToBrowser; when the
\* stream is exhausted the fragments are joined and returned
StreamStep ==
  /\ call.pc = "streaming"
  /\ Streamed(nextBuffer(call.queue, <<>>))
  /\ UNCHANGED <<options, state, result, run, prev, aside>>

\* chunkedConvert, one turn of its loop; after the last group mergeResults
ChunkStep ==
  /\ call.pc = "chunked"
  /\ IF call.chunks = <<>>
     THEN /\ call' = [call EXCEPT !.pc = "done", !.out = mergeResults(call.results)]
          /\ UNCHANGED <<cache, stats, hist, input>>
     ELSE ProcessChunk(Head(call.chunks), call.queue, Tail(call.chunks))
  /\ UNCHANGED <<options, state, result, run, prev, aside>>

\* yieldToBrowser: the idle callback (or the timer) fires and the loop goes on
YieldToBrowser ==
  /\ call.pc = "yield"
  /\ call' = [call EXCEPT !.pc = call.mode]
  /\ UNCHANGED <<options, input, state, result, run, prev, cache, stats, hist, aside>>

SchedNext ==
  \/ CanCall /\ \E el \in SchedDocs : ConvertWithCache(el)
  \/ CanCall /\ \E el \in SchedDocs : ConvertOptimized(el)
  \/ StreamStep
  \/ ChunkStep
  \/ YieldToBrowser

SpecSched == SchedInit /\ [][SchedNext]_vars

----------------------------------------------------------------------------
(* Specification of the WorkerBasedParser: one parser, its worker and the   *)
(* convert calls made on it.  The page and the worker exchange messages by  *)
(* value; each side handles one message at a time.                          *)

\* element.outerHTML: the markup of the subtree as a sequence of tokens
RECURSIVE outerHTML(_), innerHTML(_)
outerHTML(node) ==
  IF node.type = "text" THEN [i \in 1..Len(node.text) |-> [kind |-> "char", v |-> node.text[i]]]
  ELSE IF node.type = "comment" THEN [i \in 1..node.n |-> [kind |-> "comment", v |-> ""]]
  ELSE <<[kind |-> "open", v |-> toLowerCase(node.tag)]>> \o innerHTML(node.kids)
       \o <<[kind |-> "close", v |-> toLowerCase(node.tag)]>>

innerHTML(ks) == IF ks = <<>> THEN <<>> ELSE outerHTML(Head(ks)) \o innerHTML(Tail(ks))

\* the worker's convertToMarkdown(doc.body): the textContent of the parsed markup
convertToMarkdown(html) ==
  [i \in 1..Len(SelectSeq(html, LAMBDA t : t.kind = "char")) |->
     SelectSeq(html, LAMBDA t : t.kind = "char")[i].v]

\* the promise of the k-th convert call settles, unless it has settled
settle(ps, k, outcome, value) ==
  IF k = 0 \/ ps[k].state # "pending" THEN ps
  ELSE [ps EXCEPT ![k] = [@ EXCEPT !.state = outcome, !.value = value]]

WorkerDocs ==
  {El("P", <<Text(<<"a">>)>>),
   El("DIV", <<Text(<<"a">>), El("P", <<Text(<<"b">>)>>)>>),
   El("UL", <<El("LI", <<Text(<<"b">>)>>)>>)}

WorkerInit ==
  /\ options \in ParserOptions
  /\ input = NoNode
  /\ state = NewState
  /\ result = [err |-> NoError, value |-> <<>>]
  /\ run = [calls |-> 0, events |-> <<>>, visited |-> 0]
  /\ prev = "never"
  /\ cache = <<>>
  /\ stats = NoStats
  /\ call = Idle
  /\ hist = NoHist
  /\ worker = [NoWorker EXCEPT !.status = "starting"]
  /\ table = NoTable
  /\ sample = NoText
  /\ lru = NoLru
  /\ ext = NoExt

parserVars == <<options, input, state, result, run, prev, cache, stats, call, hist>>

besideWorker == <<parserVars, table, sample, lru, ext>>

\* the worker has run its script: the listener of lines 363-374 is installed
WorkerStarted ==
  /\ worker.status = "starting"
  /\ worker' = [worker EXCEPT !.status = "running"]
  /\ UNCHANGED besideWorker

\* the worker could not run its script: an error event is dispatched at the
\* Worker object and this.worker.onerror, if a convert call has set it, runs
WorkerScriptError ==
  /\ worker.status = "starting"
  /\ worker' = [worker EXCEPT !.status = "broken",
                              !.promises = settle(@, worker.onerror, "rejected", <<>>)]
  /\ UNCHANGED besideWorker

\* workerParser.convert(el, options): the handlers of the new promise replace
\* the ones set before, and the markup is posted to the worker
WorkerConvert(el) ==
  /\ Len(worker.promises) < MaxRequests
  /\ worker' = [worker EXCEPT
       !.promises = Append(@, [element |-> el, state |-> "pending", value |-> <<>>]),
       !.onmessage = Len(worker.promises) + 1,
       !.onerror = Len(worker.promises) + 1,
       !.inbox = IF worker.status \in {"starting", "running"}
                 THEN Append(@, [html |-> outerHTML(el), request |-> Len(worker.promises) + 1])
                 ELSE @]
  /\ UNCHANGED besideWorker

\* the worker's message listener runs to its end and posts the markdown
WorkerListener ==
  /\ worker.status = "running" /\ worker.inbox # <<>>
  /\ worker' = [worker EXCEPT
       !.inbox = Tail(@),
       !.outbox = Append(@, [markdown |-> convertToMarkdown(Head(worker.inbox).html),
                             request |-> Head(worker.inbox).request])]
  /\ UNCHANGED besideWorker

\* the worker's message listener throws (new DOMParser(), parseFromString or
\* convertToMarkdown fails): the listener is an async function, so its
\* promise is rejected with nobody waiting for it, and no message and no
\* error event leaves the worker
WorkerListenerThrows ==
  /\ worker.status = "running" /\ worker.inbox # <<>>
  /\ worker' = [worker EXCEPT !.inbox = Tail(@),
                              !.thrown = @ \cup {Head(worker.inbox).request}]
  /\ UNCHANGED besideWorker

\* this.worker.onmessage runs on the page for the worker's next message
WorkerOnMessage ==
  /\ worker.outbox # <<>>
  /\ worker' = [worker EXCEPT
       !.outbox = Tail(@),
       !.promises = settle(@, worker.onmessage, "resolved", Head(worker.outbox).markdown)]
  /\ UNCHANGED besideWorker

\* workerParser.terminate(): the worker stops, what it had not handled and
\* what it had posted but the page had not received is dropped
WorkerTerminate ==
  /\ worker.status \in {"starting", "running"}
  /\ worker' = [worker EXCEPT !.status = "terminated", !.inbox = <<>>, !.outbox = <<>>]
  /\ UNCHANGED besideWorker

WorkerNext ==
  \/ WorkerStarted
  \/ WorkerScriptError
  \/ \E el \in WorkerDocs : WorkerConvert(el)
  \/ WorkerListener
  \/ WorkerListenerThrows
  \/ WorkerOnMessage
  \/ WorkerTerminate

SpecWorker == WorkerInit /\ [][WorkerNext]_vars

\* The event loops of the worker and of the page run every task that is
\* queued: a worker that can start does start or fail, a posted message is
\* handled, and a message from the worker is received.
FairSpecWorker ==
  /\ SpecWorker
  /\ WF_vars(WorkerStarted \/ WorkerScriptError)
  /\ WF_vars(WorkerListener \/ WorkerListenerThrows)
  /\ WF_vars(WorkerOnMessage)

----------------------------------------------------------------------------
(* Specification of EdgeCaseHandlers.normalizeTable: a table, given as its  *)
(* rows of td and th cells, is normalized in place.                         *)

\* a td or th element: its tag, its colspan and rowspan attributes (the empty
\* string where the attribute is absent) and its text
Cell(tag, colspan, rowspan, text) ==
  [tag |-> tag, colspan |-> colspan, rowspan |-> rowspan, text |-> text]

\* the value of a decimal digit
digitValue(c) ==
  CASE c = "0" -> 0 [] c = "1" -> 1 [] c = "2" -> 2 [] c = "3" -> 3 [] c = "4" -> 4
    [] c = "5" -> 5 [] c = "6" -> 6 [] c = "7" -> 7 [] c = "8" -> 8 [] c = "9" -> 9

\* parseInt of a string of decimal digits
RECURSIVE parseInt(_)
parseInt(s) ==
  IF s = <<>> THEN 0 ELSE 10 * parseInt(SubSeq(s, 1, Len(s) - 1)) + digitValue(s[Len(s)])

\* parseInt(cell.getAttribute(name) || '1')
spanOf(attr) == IF attr = <<>> THEN parseInt(<<"1">>) ELSE parseInt(attr)

\* the columns the cells of a row cover, colspan counted (lines 486-490)
RECURSIVE columnCount(_)
columnCount(cells) ==
  IF cells = <<>> THEN 0 ELSE spanOf(Head(cells).colspan) + columnCount(Tail(cells))

\* Math.max over the rows, from 0 (lines 480-491)
RECURSIVE maxColumnsOf(_, _)
maxColumnsOf(rows, maxColumns) ==
  IF rows = <<>> THEN maxColumns
  ELSE maxColumnsOf(Tail(rows), IF columnCount(Head(rows)) > maxColumns
                                THEN columnCount(Head(rows)) ELSE maxColumns)

\* document.createElement(cells[0]?.tagName || 'td')
createCell(cells, text) ==
  Cell(IF cells = <<>> THEN "TD" ELSE cells[1].tag, <<>>, <<>>, text)

\* the while loop of lines 505-509: empty cells appended up to maxColumns
RECURSIVE addEmptyCells(_, _, _, _)
addEmptyCells(row, cells, currentColumns, maxColumns) ==
  IF currentColumns < maxColumns
  THEN addEmptyCells(Append(row, createCell(cells, <<>>)), cells, currentColumns + 1, maxColumns)
  ELSE row

\* lines 494-510: every row padded
padRows(rows, maxColumns) ==
  [r \in 1..Len(rows) |-> addEmptyCells(rows[r], rows[r], columnCount(rows[r]), maxColumns)]

\* the keys of spanMap are pairs <<rowIndex, cellIndex>>, both from 0; the
\* map is the sequence of its keys in insertion order
spanHas(spanMap, key) == \E i \in 1..Len(spanMap) : spanMap[i] = key

spanSet(spanMap, key) == IF spanHas(spanMap, key) THEN spanMap ELSE Append(spanMap, key)

\* the while loop of lines 529-531
RECURSIVE skipSpanned(_, _, _)
skipSpanned(spanMap, rowIndex, cellIndex) ==
  IF spanHas(spanMap, <<rowIndex, cellIndex>>)
  THEN skipSpanned(spanMap, rowIndex, cellIndex + 1)
  ELSE cellIndex

\* the for loop of lines 536-540 from i on
RECURSIVE markSpan(_, _, _, _, _, _)
markSpan(spanMap, rowIndex, cellIndex, i, rowspan, length) ==
  IF i >= rowspan THEN spanMap
  ELSE markSpan(IF rowIndex + i < length
                THEN spanSet(spanMap, <<rowIndex + i, cellIndex>>) ELSE spanMap,
                rowIndex, cellIndex, i + 1, rowspan, length)

\* cells.forEach of lines 527-544, the cell at hand standing at cellIndex
RECURSIVE eachSpanCell(_, _, _, _, _)
spanCellAt(spanMap, rowIndex, cells, cellIndex, length) ==
  eachSpanCell(markSpan(spanMap, rowIndex, cellIndex, 1, spanOf(Head(cells).rowspan), length),
               rowIndex, Tail(cells), cellIndex + 1, length)

eachSpanCell(spanMap, rowIndex, cells, cellIndex, length) ==
  IF cells = <<>> THEN spanMap
  ELSE spanCellAt(spanMap, rowIndex, cells, skipSpanned(spanMap, rowIndex, cellIndex), length)

\* rows.forEach of lines 523-545
RECURSIVE eachSpanRow(_, _, _)
eachSpanRow(spanMap, rows, rowIndex) ==
  IF rowIndex >= Len(rows) THEN spanMap
  ELSE eachSpanRow(eachSpanCell(spanMap, rowIndex, rows[rowIndex + 1], 0, Len(rows)),
                   rows, rowIndex + 1)

\* the text of the cell that stands for a rowspan that continues (an upward
\* arrow in the source)
Placeholder == <<"^">>

\* row.insertBefore(newCell, cells[cellIndex]), or row.appendChild(newCell)
insertCell(cells, cellIndex) ==
  IF cellIndex < Len(cells)
  THEN SubSeq(cells, 1, cellIndex) \o <<createCell(cells, Placeholder)>>
       \o SubSeq(cells, cellIndex + 1, Len(cells))
  ELSE Append(cells, createCell(cells, Placeholder))

\* spanMap.forEach of lines 548-560
RECURSIVE insertPlaceholders(_, _)
insertPlaceholders(rows, spanMap) ==
  IF spanMap = <<>> THEN rows
  ELSE insertPlaceholders(
         [rows EXCEPT ![Head(spanMap)[1] + 1] = insertCell(@, Head(spanMap)[2])],
         Tail(spanMap))

\* handleRowspan(table)
handleRowspan(rows) == insertPlaceholders(rows, eachSpanRow(<<>>, rows, 0))

\* normalizeTable(table): the rows it leaves
normalizeTable(rows) == handleRowspan(padRows(rows, maxColumnsOf(rows, 0)))

CellKinds ==
  {Cell("TD", c, r, <<"a">>) : c \in {<<>>, <<"2">>}, r \in {<<>>, <<"2">>}}
  \cup {Cell("TH", <<>>, <<>>, <<"b">>)}

RowsOf(n) == UNION {[1..k -> CellKinds] : k \in 1..n}

Tables == UNION {[1..k -> RowsOf(MaxCells)] : k \in 1..MaxRows}

TableInit ==
  /\ options \in ParserOptions
  /\ input = NoNode
  /\ state = NewState
  /\ result = [err |-> NoError, value |-> <<>>]
  /\ run = [calls |-> 0, events |-> <<>>, visited |-> 0]
  /\ prev = "never"
  /\ cache = <<>>
  /\ stats = NoStats
  /\ call = Idle
  /\ hist = NoHist
  /\ worker = NoWorker
  /\ table \in {[pc |-> "given", given |-> t, rows |-> t] : t \in Tables}
  /\ sample = NoText
  /\ lru = NoLru
  /\ ext = NoExt

\* EdgeCaseHandlers.normalizeTable(table)
NormalizeTable ==
  /\ table.pc = "given"
  /\ table' = [table EXCEPT !.pc = "normalized", !.rows = normalizeTable(table.rows)]
  /\ UNCHANGED <<parserVars, worker, sample, lru, ext>>

TableNext == NormalizeTable

SpecTable == TableInit /\ [][TableNext]_vars

----------------------------------------------------------------------------
(* Specification of the functions from strings to strings: escapeMarkdown   *)
(* and processInlineCode of the parser, and                                  *)
(* EdgeCaseHandlers.escapeSpecialCharacters in the normal context.          *)

\* the character \x00 that brackets the index of an excluded match
NUL == "\\x00"

Digits == {"0", "1", "2", "3", "4", "5", "6", "7", "8", "9"}

\* the end of the lazy .*? of /\[.*?\]\(.*?\)/ from j on: the first "]" with a
\* "(" behind it, no line terminator in between; 0 if there is none
RECURSIVE closeAt(_, _)
closeAt(s, j) ==
  IF j >= Len(s) THEN 0
  ELSE IF s[j] = "]" /\ s[j + 1] = "(" THEN j
  ELSE IF s[j] = "\n" THEN 0
  ELSE closeAt(s, j + 1)

\* the first ")" from k on, no line terminator in between; 0 if there is none
RECURSIVE parenAt(_, _)
parenAt(s, k) ==
  IF k > Len(s) THEN 0
  ELSE IF s[k] = ")" THEN k
  ELSE IF s[k] = "\n" THEN 0
  ELSE parenAt(s, k + 1)

\* the last index of a match of /\[.*?\]\(.*?\)/ that begins at i, or 0
linkEnd(s, i) ==
  IF s[i] = "[" /\ closeAt(s, i + 1) > 0 THEN parenAt(s, closeAt(s, i + 1) + 2) ELSE 0

\* the last index of the run of \S that begins at k (k - 1 if it is empty)
RECURSIVE nonSpaceEnd(_, _)
nonSpaceEnd(s, k) ==
  IF k <= Len(s) /\ s[k] \notin Ws THEN nonSpaceEnd(s, k + 1) ELSE k - 1

\* s holds the characters of t from index i on
startsAt(s, i, t) == i + Len(t) - 1 <= Len(s) /\ SubSeq(s, i, i + Len(t) - 1) = t

\* the index behind /https?:\/\// where it matches at i, or 0
schemeEnd(s, i) ==
  IF startsAt(s, i, <<"h", "t", "t", "p", "s", ":", "/", "/">>) THEN i + 8
  ELSE IF startsAt(s, i, <<"h", "t", "t", "p", ":", "/", "/">>) THEN i + 7
  ELSE 0

\* the last index of a match of /https?:\/\/\S+/ that begins at i, or 0
urlEnd(s, i) ==
  IF schemeEnd(s, i) > 0 /\ nonSpaceEnd(s, schemeEnd(s, i)) >= schemeEnd(s, i)
  THEN nonSpaceEnd(s, schemeEnd(s, i))
  ELSE 0

\* the last index of a match of exclude pattern p that begins at i, or 0
matchEnd(p, s, i) == IF p = "link" THEN linkEnd(s, i) ELSE urlEnd(s, i)

\* `\x00${excluded.length - 1}\x00`
placeholderOf(excluded) == <<NUL>> \o numToStr(Len(excluded) - 1) \o <<NUL>>

\* text.replace(excludePattern, ...) of lines 409-412 from index i on: the
\* matches are collected in excluded and replaced by their placeholders
RECURSIVE excludeFrom(_, _, _, _, _)
excludeMatch(p, s, i, out, excluded, end) ==
  excludeFrom(p, s, end + 1, out \o placeholderOf(Append(excluded, SubSeq(s, i, end))),
              Append(excluded, SubSeq(s, i, end)))

excludeFrom(p, s, i, out, excluded) ==
  IF i > Len(s) THEN [text |-> out, excluded |-> excluded]
  ELSE IF matchEnd(p, s, i) > 0 THEN excludeMatch(p, s, i, out, excluded, matchEnd(p, s, i))
  ELSE excludeFrom(p, s, i + 1, Append(out, s[i]), excluded)

\* the last index of the digits of a match of /\x00(\d+)\x00/ that begins at i,
\* or 0
RECURSIVE digitsEnd(_, _)
digitsEnd(s, k) == IF k <= Len(s) /\ s[k] \in Digits THEN digitsEnd(s, k + 1) ELSE k - 1

indexEnd(s, i) ==
  IF s[i] = NUL /\ digitsEnd(s, i + 1) > i /\ digitsEnd(s, i + 1) < Len(s)
     /\ s[digitsEnd(s, i + 1) + 1] = NUL
  THEN digitsEnd(s, i + 1)
  ELSE 0

\* excluded[index], "undefined" where the array has no such element
excludedAt(excluded, index) ==
  IF index < Len(excluded) THEN excluded[index + 1]
  ELSE <<"u", "n", "d", "e", "f", "i", "n", "e", "d">>

\* text.replace(/\x00(\d+)\x00/g, ...) of line 418 from index i on
RECURSIVE restoreFrom(_, _, _)
restoreFrom(s, i, excluded) ==
  IF i > Len(s) THEN <<>>
  ELSE IF indexEnd(s, i) > 0
  THEN excludedAt(excluded, parseInt(SubSeq(s, i + 1, indexEnd(s, i))))
       \o restoreFrom(s, indexEnd(s, i) + 2, excluded)
  ELSE <<s[i]>> \o restoreFrom(s, i + 1, excluded)

\* lines 407-419: the exclusions made (links first, then URLs), the escaping
\* applied to what is left, the excluded content put back
escapeOutside(links) ==
  restoreFrom(escapeAll(excludeFrom("url", links.text, 1, <<>>, links.excluded).text), 1,
              excludeFrom("url", links.text, 1, <<>>, links.excluded).excluded)

\* the last index of the marker of a match of /^([#*+\->]|\d+\.)\s/ that begins
\* at i, or 0; the match itself is one character longer
markerEnd(s, i) ==
  IF s[i] \in {"#", "*", "+", "-", ">"} THEN (IF i < Len(s) /\ s[i + 1] \in Ws THEN i ELSE 0)
  ELSE IF digitsEnd(s, i) >= i /\ digitsEnd(s, i) + 2 <= Len(s)
          /\ s[digitsEnd(s, i) + 1] = "." /\ s[digitsEnd(s, i) + 2] \in Ws
  THEN digitsEnd(s, i) + 1
  ELSE 0

\* text.replace(pattern.lineStart, '\\$1') of line 425 from index i on: at the
\* start of a line a match is replaced by a backslash and its marker
RECURSIVE escapeLineStarts(_, _)
escapeLineStarts(s, i) ==
  IF i > Len(s) THEN <<>>
  ELSE IF (i = 1 \/ s[i - 1] = "\n") /\ markerEnd(s, i) > 0
  THEN <<"\\">> \o SubSeq(s, i, markerEnd(s, i)) \o escapeLineStarts(s, markerEnd(s, i) + 2)
  ELSE <<s[i]>> \o escapeLineStarts(s, i + 1)

\* EdgeCaseHandlers.escapeSpecialCharacters(text, {type: 'normal'})
escapeSpecialCharacters(text) ==
  escapeLineStarts(escapeOutside(excludeFrom("link", text, 1, <<>>, <<>>)), 1)

TextChars == {"a", ">", " ", "\\", BT}

StringsOf(n) == UNION {[1..k -> TextChars] : k \in 0..n}

\* texts with a marker at the start of a line, with a link and with a URL
MarkedTexts ==
  {<<"#", " ", "a">>, <<"1", ".", " ", "a">>, <<"a", "\n", "-", " ", "a">>,
   <<"[", "a", "]", "(", "b", ")", "*">>,
   <<"h", "t", "t", "p", ":", "/", "/", "a", ".", "b", " ", "*">>}

Strings == StringsOf(MaxLen) \cup MarkedTexts

TextInit ==
  /\ options \in ParserOptions
  /\ input = NoNode
  /\ state = NewState
  /\ result = [err |-> NoError, value |-> <<>>]
  /\ run = [calls |-> 0, events |-> <<>>, visited |-> 0]
  /\ prev = "never"
  /\ cache = <<>>
  /\ stats = NoStats
  /\ call = Idle
  /\ hist = NoHist
  /\ worker = NoWorker
  /\ table = NoTable
  /\ sample \in {[NoText EXCEPT !.pc = "given", !.input = s] : s \in Strings}
  /\ lru = NoLru
  /\ ext = NoExt

besideText == <<parserVars, worker, table, lru, ext>>

Returned(fn, output) ==
  /\ sample.pc = "given"
  /\ sample' = [sample EXCEPT !.pc = "returned", !.fn = fn, !.output = output]
  /\ UNCHANGED besideText

\* parser.escapeMarkdown(text), outside preformatted text
EscapeMarkdown == Returned("escapeMarkdown", escapeMarkdown(sample.input, NewContext))

\* EdgeCaseHandlers.escapeSpecialCharacters(text, {type: 'normal'})
EscapeSpecialCharacters ==
  Returned("escapeSpecialCharacters", escapeSpecialCharacters(sample.input))

\* parser.processInlineCode(<code>text</code>)
ProcessInlineCode ==
  Returned("processInlineCode",
           processInlineCode(El("CODE", <<Text(sample.input)>>), NewContext).out)

TextNext ==
  \/ EscapeMarkdown
  \/ EscapeSpecialCharacters
  \/ ProcessInlineCode

SpecText == TextInit /\ [][TextNext]_vars

----------------------------------------------------------------------------
(* Specification of the LRUCache: one cache, and get, set and clear called  *)
(* on it.  Beside the Map the model keeps the keys in the order of their    *)
(* last use, a use being a get that finds the key or a set of it.           *)

LruKeys == {"k1", "k2", "k3", "k4"}
LruValues == {<<"a">>, <<"b">>}
Capacities == {0, 1, 2, 3}

\* the keys of a Map
keysOf(m) == {m[i].key : i \in 1..Len(m)}

\* the keys in the order of their last use after key k is used: k is the
\* most recent, and only the keys stored are kept
usedLast(recency, k, stored) ==
  SelectSeq(SelectSeq(recency, LAMBDA x : x # k) \o <<k>>, LAMBDA x : x \in keysOf(stored))

LruInit ==
  /\ options \in ParserOptions
  /\ input = NoNode
  /\ state = NewState
  /\ result = [err |-> NoError, value |-> <<>>]
  /\ run = [calls |-> 0, events |-> <<>>, visited |-> 0]
  /\ prev = "never"
  /\ cache = <<>>
  /\ stats = NoStats
  /\ call = Idle
  /\ hist = NoHist
  /\ worker = NoWorker
  /\ table = NoTable
  /\ sample = NoText
  /\ lru \in {[NoLru EXCEPT !.maxSize = n, !.op = "new"] : n \in Capacities}
  /\ ext = NoExt

besideLru == <<parserVars, worker, table, sample, ext>>

\* cache.get(key)
LruGet(key) ==
  /\ lru' = [lru EXCEPT !.cache = lruGet(lru.cache, key).cache,
                        !.recency = IF lruGet(lru.cache, key).found
                                    THEN usedLast(@, key, lruGet(lru.cache, key).cache) ELSE @,
                        !.op = "get", !.key = key]
  /\ UNCHANGED besideLru

\* cache.set(key, value)
LruSet(key, value) ==
  /\ lru' = [lru EXCEPT !.cache = lruSet(lru.cache, key, value, lru.maxSize),
                        !.recency = usedLast(@, key, lruSet(lru.cache, key, value, lru.maxSize)),
                        !.op = "set", !.key = key]
  /\ UNCHANGED besideLru

\* cache.clear()
LruClear ==
  /\ lru' = [lru EXCEPT !.cache = <<>>, !.recency = <<>>, !.op = "clear", !.key = "none"]
  /\ UNCHANGED besideLru

LruNext ==
  \/ \E key \in LruKeys : LruGet(key)
  \/ \E key \in LruKeys, value \in LruValues : LruSet(key, value)
  \/ LruClear

SpecLru == LruInit /\ [][LruNext]_vars

----------------------------------------------------------------------------
(* Specification of the extension in one browser tab: the page shown, the   *)
(* instances of content.js that run in it, the background service worker    *)
(* and the popup.  Messages are queued and handled one at a time.  The page *)
(* is given by the children of its body and by what Readability makes of    *)
(* it; Readability and Turndown are libraries, known here by what content.js *)
(* asks of them.                                                            *)

MaxTriggers == 2
MaxElements == 2

\* a child of the body
PageElement(tag, role, id, class, hidden) ==
  [tag |-> tag, role |-> role, id |-> id, class |-> class, hidden |-> hidden, text |-> ""]

ElementKinds ==
  {PageElement("MAIN", "", "", "", FALSE), PageElement("ARTICLE", "", "", "", FALSE),
   PageElement("DIV", "main", "", "", FALSE), PageElement("DIV", "", "content", "", FALSE),
   PageElement("DIV", "", "", "content", FALSE), PageElement("DIV", "", "main", "", FALSE),
   PageElement("DIV", "", "", "main", FALSE), PageElement("DIV", "", "", "", FALSE),
   PageElement("SCRIPT", "", "", "", FALSE), PageElement("DIV", "", "", "", TRUE)}

\* the text of the i-th element
TextAt(i) == IF i = 1 THEN "a" ELSE "b"

ElementsOf(n) ==
  {[i \in 1..n |-> [kinds[i] EXCEPT !.text = TextAt(i)]] : kinds \in [1..n -> ElementKinds]}

\* the documents a tab shows: HTML pages, with a body, and a document of
\* another kind (an SVG image, an XML file), which has none; for each, what
\* Readability makes of it and whether extensions may run scripts in it
Pages ==
  {[kind |-> "html", readability |-> r, scriptable |-> s, elements |-> els] :
     r \in {"article", "none", "throws"}, s \in BOOLEAN,
     els \in UNION {ElementsOf(n) : n \in 0..MaxElements}}
  \cup {[kind |-> "other", readability |-> r, scriptable |-> TRUE, elements |-> <<>>] :
          r \in {"none", "throws"}}

\* extractArticleContent: the article, or null when reader.parse() gives no
\* content or throws
extractArticleContent(page) ==
  IF page.readability = "article" THEN [isArticle |-> TRUE, content |-> <<"r">>]
  ELSE [isArticle |-> FALSE, content |-> <<>>]

contentSelectors ==
  <<"main", "article", "[role=main]", "#content", ".content", "#main", ".main">>

\* element.matches(selector) for the selectors of the list
matchesSelector(element, selector) ==
  CASE selector = "main" -> element.tag = "MAIN"
    [] selector = "article" -> element.tag = "ARTICLE"
    [] selector = "[role=main]" -> element.role = "main"
    [] selector = "#content" -> element.id = "content"
    [] selector = ".content" -> element.class = "content"
    [] selector = "#main" -> element.id = "main"
    [] selector = ".main" -> element.class = "main"
    [] OTHER -> FALSE

\* document.querySelector(selector): the index of the first element in
\* document order that matches, from the i-th on, or 0 (null)
RECURSIVE documentQuerySelector(_, _, _)
documentQuerySelector(elements, i, selector) ==
  IF i > Len(elements) THEN 0
  ELSE IF matchesSelector(elements[i], selector) THEN i
  ELSE documentQuerySelector(elements, i + 1, selector)

\* the loop without its break: the last selector that matches wins
RECURSIVE selectContentWithoutBreak(_, _)
selectContentWithoutBreak(page, k) ==
  IF k > Len(contentSelectors) THEN 0
  ELSE IF selectContentWithoutBreak(page, k + 1) # 0 THEN selectContentWithoutBreak(page, k + 1)
  ELSE documentQuerySelector(page.elements, 1, contentSelectors[k])

\* the loop over contentSelectors from the k-th on: the element found for the
\* first selector that matches any, or 0 (null)
RECURSIVE selectContent(_, _)
selectContent(page, k) ==
  IF k > Len(contentSelectors) THEN 0
  ELSE IF documentQuerySelector(page.elements, 1, contentSelectors[k]) # 0
  THEN documentQuerySelector(page.elements, 1, contentSelectors[k])
  ELSE selectContent(page, k + 1)

\* the clone of the content element (0: the body) without its script, style,
\* noscript and hidden descendants
contentClone(page, chosen) ==
  IF chosen # 0 THEN <<page.elements[chosen]>>
  ELSE SelectSeq(page.elements,
                 LAMBDA element : element.tag \notin {"SCRIPT", "STYLE", "NOSCRIPT"}
                                  /\ ~element.hidden)

\* turndownService.turndown(node): the Markdown of the texts in the node
turndown(elements) == [i \in 1..Len(elements) |-> elements[i].text]

\* the front matter and the title line
frontMatter(title) == <<"---", title, "url", "date", "---", "# title">>

\* the fallback branch of convertToMarkdown with the content element chosen:
\* a document without body has null there, and cloneNode of null throws
fallbackOf(page, chosen) ==
  IF chosen = 0 /\ page.kind # "html"
  THEN [success |-> FALSE, markdown |-> <<>>, error |-> "TypeError"]
  ELSE [success |-> TRUE, error |-> "",
        markdown |-> frontMatter("title: document") \o turndown(contentClone(page, chosen))]

\* convertToMarkdown of content.js as the message listener runs it: the
\* result, or the exception caught
contentToMarkdown(page) ==
  IF extractArticleContent(page).isArticle
  THEN [success |-> TRUE, error |-> "",
        markdown |-> frontMatter("title: article") \o extractArticleContent(page).content]
  ELSE fallbackOf(page, selectContent(page, 1))

Zeros == [i \in 1..MaxTriggers |-> 0]

ExtInit ==
  /\ options \in ParserOptions
  /\ input = NoNode
  /\ state = NewState
  /\ result = [err |-> NoError, value |-> <<>>]
  /\ run = [calls |-> 0, events |-> <<>>, visited |-> 0]
  /\ prev = "never"
  /\ cache = <<>>
  /\ stats = NoStats
  /\ call = Idle
  /\ hist = NoHist
  /\ worker = NoWorker
  /\ table = NoTable
  /\ sample = NoText
  /\ lru = NoLru
  /\ ext \in {[NoExt EXCEPT !.page = p, !.scripts = n, !.converted = Zeros, !.opened = Zeros] :
                p \in Pages, n \in {0, 1}}
  /\ ext.scripts = 1 => ext.page.scriptable

besideExt == <<parserVars, worker, table, sample, lru>>

\* a sendMessage to a tab that has no listener: the callback finds lastError
lastErrors(requests) ==
  [i \in 1..Len(requests) |->
     [to |-> requests[i].from, trigger |-> requests[i].trigger, lastError |-> TRUE,
      success |-> FALSE, markdown |-> <<>>]]

\* the tab loads the page anew: the listeners of the old document are gone
\* with the requests sent to it, and the manifest's content_scripts entry
\* runs content.js once in the new document
PageLoad ==
  /\ ext' = [ext EXCEPT !.scripts = IF ext.page.scriptable THEN 1 ELSE 0,
                        !.inbox = <<>>,
                        !.replies = @ \o lastErrors(ext.inbox)]
  /\ UNCHANGED besideExt

\* the click handler of the popup and the command listener of the background
\* up to sendMessage: executeScript runs content.js in the tab again, or
\* throws for a page that may not be scripted, and the request is sent
requestFrom(sender) ==
  /\ ext.triggers < MaxTriggers
  /\ ext' = [ext EXCEPT !.triggers = @ + 1,
                        !.scripts = IF ext.page.scriptable THEN @ + 1 ELSE @,
                        !.inbox = Append(@, [from |-> sender, trigger |-> ext.triggers + 1])]
  /\ UNCHANGED besideExt

\* chrome.commands.onCommand: the shortcut command
OnCommand == requestFrom("background")

\* the popup's convert button
PopupConvert == requestFrom("popup")

\* the tab receives a convertToMarkdown request: every instance of content.js
\* has a listener, each converts the page and calls sendResponse, and the
\* first response is the one delivered
ContentOnMessage ==
  /\ ext.inbox # <<>>
  /\ ext' = [ext EXCEPT
       !.inbox = Tail(@),
       !.converted[Head(ext.inbox).trigger] = @ + ext.scripts,
       !.replies = IF ext.scripts = 0 THEN @ \o lastErrors(<<Head(ext.inbox)>>)
                   ELSE Append(@, [to |-> Head(ext.inbox).from,
                                   trigger |-> Head(ext.inbox).trigger, lastError |-> FALSE,
                                   success |-> contentToMarkdown(ext.page).success,
                                   markdown |-> contentToMarkdown(ext.page).markdown]),
       !.answered = IF ext.scripts = 0 THEN @ ELSE <<contentToMarkdown(ext.page)>>]
  /\ UNCHANGED besideExt

\* createMarkdownTab for the trigger's data: chrome.tabs.create
createMarkdownTab(e, trigger) == [e EXCEPT !.opened[trigger] = @ + 1]

\* the response callback of the command listener
CommandResponse ==
  /\ ext.replies # <<>> /\ Head(ext.replies).to = "background"
  /\ ext' = IF Head(ext.replies).success
            THEN createMarkdownTab([ext EXCEPT !.replies = Tail(@)], Head(ext.replies).trigger)
            ELSE [ext EXCEPT !.replies = Tail(@)]
  /\ UNCHANGED besideExt

\* the response callback of the popup: the data goes on to the background
PopupResponse ==
  /\ ext.replies # <<>> /\ Head(ext.replies).to = "popup"
  /\ ext' = [ext EXCEPT
       !.replies = Tail(@),
       !.outbox = IF Head(ext.replies).success
                  THEN Append(@, [trigger |-> Head(ext.replies).trigger,
                                  markdown |-> Head(ext.replies).markdown])
                  ELSE @]
  /\ UNCHANGED besideExt

\* the openMarkdownTab messages of the keydown listeners, one for each
\* instance of content.js
RECURSIVE openMarkdownTabs(_, _, _)
openMarkdownTabs(n, trigger, markdown) ==
  IF n = 0 THEN <<>>
  ELSE <<[trigger |-> trigger, markdown |-> markdown]>> \o openMarkdownTabs(n - 1, trigger, markdown)

\* the fallback key combination is pressed in the page: the keydown listener
\* of every instance of content.js converts the page and, unless that throws,
\* sends openMarkdownTab
KeyDown ==
  /\ ext.triggers < MaxTriggers
  /\ ext' = [ext EXCEPT
       !.triggers = @ + 1,
       !.converted[ext.triggers + 1] = @ + ext.scripts,
       !.outbox = IF contentToMarkdown(ext.page).success
                  THEN @ \o openMarkdownTabs(ext.scripts, ext.triggers + 1,
                                             contentToMarkdown(ext.page).markdown)
                  ELSE @]
  /\ UNCHANGED besideExt

\* chrome.runtime.onMessage of the background: openMarkdownTab
BackgroundOnMessage ==
  /\ ext.outbox # <<>>
  /\ ext' = createMarkdownTab([ext EXCEPT !.outbox = Tail(@)], Head(ext.outbox).trigger)
  /\ UNCHANGED besideExt

ExtNext ==
  \/ PageLoad
  \/ OnCommand
  \/ PopupConvert
  \/ ContentOnMessage
  \/ CommandResponse
  \/ PopupResponse
  \/ KeyDown
  \/ BackgroundOnMessage

SpecExt == ExtInit /\ [][ExtNext]_vars

----------------------------------------------------------------------------
(* Properties.  Those of the parser are stated of Spec, those of the         *)
(* PerformanceOptimizedParser of SpecSched.                                  *)

\* what a call gave: the exception that left it, or the string it returned
sameOutcome(h, r) == h.err = r.err /\ h.out = r.out

\* C1: when streamingConvert returns, the string it returns (the fragments of
\* the groups yielded by createNodeStream, joined in order) is the string the
\* direct single-pass conversion of the same tree returns.
StreamingEqualsDirect ==
  (call.pc = "done" /\ call.mode = "streaming" /\ call.err = NoError)
    => call.out = convert(NewState, call.element).out

\* C2: whatever calls came before, what convertWithCache gives for an element
\* (from the cache or freshly rendered) is what an uncached
\* HTMLToMarkdownParser.convert of that element gives.
CacheTransparent ==
  hist.calls > 0 => sameOutcome(hist, convert(NewState, hist.element))

\* the list-stack depth, the block-quote depth and the preformatted flag that
\* an entry of the execution record saw
Snapshot(e) == <<e.ls, e.bq, e.pf>>

\* the entry, at or before i, at which the call began that ends right after
\* entry i: the calls that ended in between are skipped with their beginnings
RECURSIVE opening(_, _, _)
opening(events, i, nested) ==
  IF i = 0 THEN 0
  ELSE IF events[i].ev = "enter"
       THEN (IF nested = 0 THEN i ELSE opening(events, i - 1, nested - 1))
  ELSE IF events[i].ev \in {"exit", "throw"} THEN opening(events, i - 1, nested + 1)
  ELSE opening(events, i - 1, nested)

\* C3: whenever processList, processBlockquote or processCodeBlock finishes,
\* by returning or by an exception thrown while its content is rendered, the
\* list-stack depth, the block-quote depth and the preformatted flag are what
\* they were when that call began.  Stated of the trees without a cycle.
ExitRestoresState ==
  ~hasBackRef(input) =>
    \A j \in 1..Len(run.events) :
      run.events[j].ev \in {"exit", "throw"}
        => Snapshot(run.events[j]) = Snapshot(run.events[opening(run.events, j - 1, 0)])

\* the links of a tree that are rendered as links: those with an href, outside
\* code blocks, inline code, tables and images
RECURSIVE linkCount(_), linksAmong(_)
linksAmong(ks) == IF ks = <<>> THEN 0 ELSE linkCount(Head(ks)) + linksAmong(Tail(ks))

linkCount(node) ==
  IF node.type # "element" \/ node.tag \in {"PRE", "CODE", "TABLE", "IMG"} THEN 0
  ELSE (IF node.tag = "A" /\ node.attrs.href # <<>> THEN 1 ELSE 0) + linksAmong(node.kids)

\* a line of the form [d]: ..., and the id d it defines
isDefinition(line) ==
  Len(line) >= 4 /\ line[1] = "[" /\ line[2] \in {Digit(d) : d \in 0..9}
  /\ line[3] = "]" /\ line[4] = ":"

idOf(line) == CHOOSE d \in 0..9 : Digit(d) = line[2]

\* the lines of an output are its body and then, as its last k lines, the
\* definitions of the ids 1..k in this order
definitionsLast(lines, k) ==
  /\ Len(lines) >= k
  /\ \A i \in 1..Len(lines) : isDefinition(lines[i]) <=> i > Len(lines) - k
  /\ \A i \in 1..k : idOf(lines[Len(lines) - k + i]) = i

\* C4: with reference-style links, the output of a conversion in any mode
\* holds the definition of every link exactly once, all definitions after all
\* body content, in ascending id order, no id defined twice.
DefinitionsOnceAtEnd ==
  (call.pc = "done" /\ call.err = NoError /\ options.linkStyle = "reference")
    => definitionsLast(split(call.out, "\n"), linkCount(call.element))

\* the links registered during the conversion, in the order they were
isLink(e) == e.ev = "link"

\* the registry that holds the first k of these links
registryOf(links, k) == [i \in 1..k |-> [key |-> i, value |-> links[i].url]]

\* the ids of the reference links of an output, read from left to right: the
\* digits d of its occurrences of ][d]
RECURSIVE refIds(_)
refIds(out) ==
  IF Len(out) < 4 THEN <<>>
  ELSE IF out[1] = "]" /\ out[2] = "[" /\ out[3] \in {Digit(d) : d \in 1..9} /\ out[4] = "]"
       THEN <<idOf(Tail(out))>> \o refIds(Tail(out))
  ELSE refIds(Tail(out))

\* the hrefs of the rendered links of a tree in the order their rendering
\* ends, which for links that do not nest is the document order
RECURSIVE hrefsOf(_), hrefsAmong(_)
hrefsAmong(ks) == IF ks = <<>> THEN <<>> ELSE hrefsOf(Head(ks)) \o hrefsAmong(Tail(ks))

hrefsOf(node) ==
  IF node.type # "element" \/ node.tag \in {"PRE", "CODE", "TABLE", "IMG"} THEN <<>>
  ELSE hrefsAmong(node.kids)
       \o (IF node.tag = "A" /\ node.attrs.href # <<>> THEN <<node.attrs.href>> ELSE <<>>)

idsInOrder(links, registry, counter) ==
  /\ \A k \in 1..Len(links) :
       links[k].id = k /\ links[k].refs = registryOf(links, k - 1)
  /\ registry = registryOf(links, Len(links))
  /\ counter = Len(links)

\* the links registered are the first links of the tree, in order
inSourceOrder(links, hrefs) ==
  /\ Len(links) <= Len(hrefs)
  /\ \A k \in 1..Len(links) : links[k].url = resolveUrl(hrefs[k], BaseURI)

nodesBelow(element) == IF size(element) - 1 > 10000 THEN 10001 ELSE size(element) - 1

\* C6: a convertOptimized call estimates the node count once and runs exactly
\* one mode: streaming iff the count exceeds 10000 or the streaming flag is
\* set, chunked iff not streaming and the count exceeds 1000, direct
\* otherwise, and then the root is rendered by exactly one convertWithCache
\* call.
ModeSelectedOnce ==
  call.pc # "idle" =>
    /\ call.counted = 1
    /\ call.nodeCount = nodesBelow(call.element)
    /\ call.mode \in {"streaming", "chunked", "direct"}
    /\ call.mode = "streaming" <=> (call.nodeCount > 10000 \/ options.streamingMode)
    /\ call.mode = "chunked"
         <=> (~(call.nodeCount > 10000 \/ options.streamingMode) /\ call.nodeCount > 1000)
    /\ call.mode = "direct" =>
         /\ call.pc = "done"
         /\ call.rendered = 1
         /\ hist.element = call.element
         /\ sameOutcome(call, hist)

\* a document of exactly 1000 nodes below its root was converted directly
DirectAtThreshold ==
  /\ call.pc = "done" /\ call.mode = "direct" /\ call.nodeCount = 1000
  /\ call.rendered = 1 /\ ~options.streamingMode

StructuralError == "StructuralError"

\* C7: when a node of the input tree is reachable from itself through child
\* links, convert ends with a StructuralError, before any node is traversed
\* and any output produced.
CycleRejectedBeforeTraversal ==
  (run.calls > 0 /\ hasBackRef(input))
    => (result.err = StructuralError /\ run.visited = 0 /\ result.value = <<>>)

ResourceError == "ResourceError"

\* C8: with a chunk size or a cache capacity of zero or less, a conversion
\* ends with a ResourceError before any node is traversed, rendered or cached.
InvalidBudgetRejected ==
  ((options.chunkSize <= 0 \/ options.cacheSize <= 0) /\ hist.api > 0) =>
    /\ hist.calls = 0 /\ cache = <<>> /\ stats = NoStats
    /\ call.pc = "done" => call.err = ResourceError

\* C9: for a finite tree without a cycle, however malformed, convert returns
\* a string and never raises.
MalformedInputNeverRaises ==
  (run.calls > 0 /\ ~hasBackRef(input)) => result.err = NoError

\* the tags of the input documents that have no handler of their own
UnhandledTags == {"DIV", "X-WIDGET"}

\* the renderings of the children ks, each rendered on its own, one after the
\* other; refs is the number of links registered before the first of them
RECURSIVE renderedInOrder(_, _)
renderedInOrder(ks, refs) ==
  IF ks = <<>> THEN <<>>
  ELSE processNode(Head(ks), [NewContext EXCEPT !.state.referenceCounter = refs]).out
       \o renderedInOrder(Tail(ks), refs + linkCount(Head(ks)))

\* what convert makes of the rendering of the root: trimmed, the definitions
\* of the registered links after it
asConverted(out, refs) ==
  IF options.linkStyle = "reference" /\ Len(refs) > 0
  THEN trim(out) \o NL2 \o referenceLines(refs) ELSE trim(out)

SourceTreeUnchanged ==
  call.pc # "idle" => input = call.element

\* a streamed conversion of a tree with a child has returned, two groups of
\* nodes and more having gone through processChunk
StreamedInGroups ==
  /\ call.pc = "done" /\ call.mode = "streaming" /\ call.rendered >= 2
  /\ Len(call.element.kids) > 0

\* the nodes of the groups, one after the other
RECURSIVE flatten(_)
flatten(groups) == IF groups = <<>> THEN <<>> ELSE Head(groups) \o flatten(Tail(groups))

\* the text of a sequence of nodes
RECURSIVE textOf(_)
textOf(nodes) == IF nodes = <<>> THEN <<>> ELSE textContent(Head(nodes)) \o textOf(Tail(nodes))

blockChildren(element) ==
  SelectSeq(element.kids, LAMBDA k : k.type = "element" /\ toLowerCase(k.tag) \in BlockTags)

\* C12: the groups splitIntoChunks makes are non-empty and partition the
\* document in source order: every block-level child of the root is in a
\* group, and the text of the groups, one after the other, is the text of the
\* document, no part of it twice and none left out.
ChunksPartitionDocument ==
  (call.pc = "chunked" /\ call.rendered = 0) =>
    /\ \A i \in 1..Len(call.chunks) : call.chunks[i] # <<>>
    /\ \A i \in 1..Len(blockChildren(call.element)) :
         \E j \in 1..Len(flatten(call.chunks)) :
           flatten(call.chunks)[j] = blockChildren(call.element)[i]
    /\ textOf(flatten(call.chunks)) = textContent(call.element)

\* every list item below the node is the child of a list
RECURSIVE itemsInLists(_), itemsInListsAmong(_, _)
itemsInLists(node) == itemsInListsAmong(node.kids, toLowerCase(node.tag) \in {"ul", "ol"})

itemsInListsAmong(ks, inList) ==
  \/ ks = <<>>
  \/ /\ Head(ks).type = "element" => (toLowerCase(Head(ks).tag) = "li" => inList)
     /\ Head(ks).type = "element" => itemsInLists(Head(ks))
     /\ itemsInListsAmong(Tail(ks), inList)

\* C13: in chunked and in streaming mode every group handed to processChunk
\* is block-aligned: of a document whose list items all sit in their lists,
\* every list item of a group has its list in the group, and the group
\* renders without error.
GroupsBlockAligned ==
  (call.mode \in {"streaming", "chunked"} /\ itemsInLists(call.element)) =>
    /\ call.pc = "yield" => itemsInLists(hist.element)
    /\ call.err = NoError

\* the text t stands somewhere in the text s
occursIn(t, s) == \E i \in 0..(Len(s) - Len(t)) : SubSeq(s, i + 1, i + Len(t)) = t

\* C14: in chunked mode newlines are collapsed only at the junctions between
\* fragments: every fragment, with the runs of three or more newlines it has
\* inside, stands unchanged in the merged output.
FragmentsMergedUnchanged ==
  (call.pc = "done" /\ call.mode = "chunked" /\ call.err = NoError) =>
    \A i \in 1..Len(call.results) : occursIn(call.results[i], call.out)

\* the buffers createNodeStream yields for a queue, first to last
RECURSIVE buffersOf(_)
buffersOf(queue) ==
  IF nextBuffer(queue, <<>>).buffer = <<>> THEN <<>>
  ELSE <<nextBuffer(queue, <<>>).buffer>> \o buffersOf(nextBuffer(queue, <<>>).queue)

\* the groups of a call in source order
groupsOf(frame) ==
  IF frame.mode = "streaming" THEN buffersOf(<<frame.element>>)
  ELSE splitIntoChunks(frame.element)

\* the call waits in yieldToBrowser with its k-th group just rendered: the
\* group was the k-th in source order and its fragment is the k-th collected
groupInTurn ==
  call.pc = "yield" =>
    /\ call.rendered = Len(call.results)
    /\ call.rendered <= Len(groupsOf(call))
    /\ hist.element = chunkContainer(groupsOf(call)[call.rendered])
    /\ call.results[call.rendered] = hist.out

\* the call returned: all groups were rendered and the fragments are joined in
\* their order
joinedInOrder ==
  (call.pc = "done" /\ call.mode \in {"streaming", "chunked"} /\ call.err = NoError) =>
    /\ Len(call.results) = Len(groupsOf(call))
    /\ call.out = IF call.mode = "streaming" THEN join(call.results, <<>>)
                  ELSE mergeResults(call.results)

\* a step that renders a group of a streamed or chunked call
rendersGroup ==
  /\ call'.mode = call.mode /\ call.mode \in {"streaming", "chunked"}
  /\ call'.rendered = call.rendered + 1

\* a group is rendered and its fragment appended in one step, by the loop and
\* not while it is suspended, and the call is then suspended in
\* yieldToBrowser (or rejected); the yield itself renders nothing and gives
\* control back to the loop
oneGroupThenYield ==
  /\ rendersGroup =>
       /\ call.pc = call.mode
       /\ call'.pc \in {"yield", "done"}
       /\ call'.pc = "yield" => call'.results = Append(call.results, hist'.out)
       /\ call'.pc = "done" => call'.err # NoError
  /\ call.pc = "yield" =>
       /\ call'.pc = call.mode
       /\ call'.rendered = call.rendered /\ call'.results = call.results

CacheOfThisCallOnly ==
  call.hits \subseteq call.written

\* the promise of the k-th convert call has settled with the outcome
settled(k, outcome) == k <= Len(worker.promises) /\ worker.promises[k].state = outcome

\* C17: if the worker fails while it handles the request of a convert call,
\* the promise that call returned is rejected.
WorkerFailureRejects ==
  \A k \in 1..MaxRequests : [](k \in worker.thrown => <>settled(k, "rejected"))

\* the document is a sequence of paragraphs and headings that each render to
\* something
Headings == {"h1", "h2", "h3", "h4", "h5", "h6"}

isTextBlock(node) ==
  /\ node.type = "element" /\ toLowerCase(node.tag) \in Headings \cup {"p"}
  /\ convert(NewState, node).out # <<>>

textBlocksOnly(node) ==
  /\ node.type = "element" /\ linkCount(node) = 0
  /\ Len(node.kids) >= 2
  /\ \A i \in 1..Len(node.kids) : isTextBlock(node.kids[i])

\* each child converted for itself
eachConverted(ks) == [i \in 1..Len(ks) |-> convert(NewState, ks[i]).out]

\* C18: in direct conversion two adjacent top-level blocks are separated by
\* exactly one blank line (two newline characters), the output never has
\* three newlines in a row, and it neither begins nor ends with a newline.
BlocksOneBlankLineApart ==
  (run.calls > 0 /\ result.err = NoError /\ ~hasBackRef(input)) =>
    /\ ~occursIn(<<"\n", "\n", "\n">>, result.value)
    /\ result.value # <<>> => Head(result.value) # "\n" /\ result.value[Len(result.value)] # "\n"
    /\ textBlocksOnly(input) => result.value = join(eachConverted(input.kids), NL2)

isList(node) == node.type = "element" /\ toLowerCase(node.tag) \in {"ul", "ol"}

\* a list whose items are each a text, or a text and then a list of that kind
RECURSIVE isListTree(_), isListItem(_)
isListTree(node) ==
  /\ isList(node) /\ node.kids # <<>>
  /\ \A i \in 1..Len(node.kids) : isListItem(node.kids[i])

isListItem(node) ==
  /\ node.type = "element" /\ toLowerCase(node.tag) = "li"
  /\ Len(node.kids) \in {1, 2}
  /\ node.kids[1].type = "text" /\ trim(node.kids[1].text) # <<>>
  /\ Len(node.kids) = 2 => isListTree(node.kids[2])

\* the nesting depths of the items of a list tree in source order, the items
\* of the outermost list at depth d
RECURSIVE itemDepths(_, _), itemDepthsAmong(_, _)
itemDepths(list, d) == itemDepthsAmong(list.kids, d)

itemDepthsAmong(items, d) ==
  IF items = <<>> THEN <<>>
  ELSE <<d>> \o (IF Len(Head(items).kids) = 2 THEN itemDepths(Head(items).kids[2], d + 1)
                 ELSE <<>>)
       \o itemDepthsAmong(Tail(items), d)

\* the number of spaces a line begins with
RECURSIVE leadingSpaces(_)
leadingSpaces(line) ==
  IF line # <<>> /\ Head(line) = " " THEN 1 + leadingSpaces(Tail(line)) ELSE 0

linesOf(text) == SelectSeq(split(text, "\n"), LAMBDA line : trim(line) # <<>>)

\* C19: the line of a list item at nesting depth N (the outermost list's
\* items at depth 0) begins with exactly N indent units of two spaces before
\* its marker, however many enclosing items it went through.
ItemIndentIsDepth ==
  (run.calls > 0 /\ result.err = NoError /\ isListTree(input)) =>
    /\ Len(linesOf(result.value)) = Len(itemDepths(input, 0))
    /\ \A i \in 1..Len(linesOf(result.value)) :
         leadingSpaces(linesOf(result.value)[i]) = 2 * itemDepths(input, 0)[i]

\* block quotes one inside the other: the number of them around the text
RECURSIVE quotesAround(_)
quotesAround(node) ==
  IF node.type = "element" /\ toLowerCase(node.tag) = "blockquote" /\ Len(node.kids) = 1
  THEN (IF quotesAround(node.kids[1]) < 0 THEN -1 ELSE 1 + quotesAround(node.kids[1]))
  ELSE IF node.type = "text" /\ trim(node.text) # <<>> THEN 0
  ELSE -1

\* the number of "> " markers a line begins with
RECURSIVE leadingMarkers(_)
leadingMarkers(line) ==
  IF Len(line) >= 2 /\ line[1] = ">" /\ line[2] = " "
  THEN 1 + leadingMarkers(SubSeq(line, 3, Len(line)))
  ELSE 0

\* C20: every line of the output that lies inside block quotes nested to
\* depth D, D at least 1, begins with exactly D "> " markers.
QuoteMarkersAreDepth ==
  (run.calls > 0 /\ result.err = NoError /\ quotesAround(input) >= 1) =>
    \A i \in 1..Len(linesOf(result.value)) :
      leadingMarkers(linesOf(result.value)[i]) = quotesAround(input)

\* the cells of a row that stand for a rowspan that continues
placeholders(cells) == Len(SelectSeq(cells, LAMBDA c : c.text = Placeholder))

\* the cells of the rows before row r whose rowspan reaches row r
RECURSIVE reaching(_, _, _)
reaching(rows, i, r) ==
  IF i >= r THEN 0
  ELSE Len(SelectSeq(rows[i], LAMBDA c : spanOf(c.rowspan) > r - i)) + reaching(rows, i + 1, r)

\* C21: after normalizeTable every row of the table covers the same number of
\* columns, colspan counted, whatever the colspan and rowspan values are, and
\* every row holds one placeholder for each cell of an earlier row whose
\* rowspan reaches it.
RowsCoverSameColumns ==
  table.pc = "normalized" =>
    /\ \A r \in 1..Len(table.rows) : columnCount(table.rows[r]) = columnCount(table.rows[1])
    /\ \A r \in 1..Len(table.rows) : placeholders(table.rows[r]) = reaching(table.given, 1, r)

\* the delimiter a code span begins with: its first one or two backticks
delimiterOf(span) ==
  IF Len(span) >= 2 /\ span[1] = BT /\ span[2] = BT THEN <<BT, BT>>
  ELSE IF Len(span) >= 1 /\ span[1] = BT THEN <<BT>>
  ELSE <<>>

\* C22: processInlineCode wraps the content in a run of one or two backticks
\* that does not occur inside the content, the shorter of the two where
\* neither occurs.
DelimiterNotInContent ==
  (sample.pc = "returned" /\ sample.fn = "processInlineCode") =>
    /\ sample.output \in {<<BT>> \o sample.input \o <<BT>>, <<BT, BT>> \o sample.input \o <<BT, BT>>}
    /\ ~occursIn(<<BT>>, sample.input) => sample.output = <<BT>> \o sample.input \o <<BT>>
    /\ \/ ~occursIn(<<BT>>, sample.input) /\ sample.output = <<BT>> \o sample.input \o <<BT>>
       \/ ~occursIn(<<BT, BT>>, sample.input)
          /\ sample.output = <<BT, BT>> \o sample.input \o <<BT, BT>>

\* an escaped text read as literal text: of every backslash with a character
\* behind it, the character is kept and the backslash dropped
RECURSIVE unescape(_)
unescape(s) ==
  IF s = <<>> THEN s
  ELSE IF Head(s) = "\\" /\ Len(s) >= 2 THEN <<s[2]>> \o unescape(SubSeq(s, 3, Len(s)))
  ELSE <<Head(s)>> \o unescape(Tail(s))

\* C23: for every text, dropping one leading backslash from each escaped
\* character of what escapeMarkdown and escapeSpecialCharacters (normal
\* context) give reproduces the text, also where a line of it begins with a
\* list, heading or block-quote marker and whitespace.
EscapeRoundTrip ==
  (sample.pc = "returned" /\ sample.fn \in {"escapeMarkdown", "escapeSpecialCharacters"}) =>
    unescape(sample.output) = sample.input

\* the same of escapeMarkdown alone
EscapeMarkdownRoundTrip ==
  (sample.pc = "returned" /\ sample.fn = "escapeMarkdown") =>
    unescape(sample.output) = sample.input

\* the keys a step takes out of the cache
evicted == keysOf(lru.cache) \ keysOf(lru'.cache)

\* a step other than clear takes an entry out only as a set of a key that was
\* not stored, into a cache at capacity, and takes out the least recently
\* used key alone
evictsLeastRecentOnly ==
  (lru'.op # "clear" /\ evicted # {}) =>
    /\ lru'.op = "set" /\ lru'.key \notin keysOf(lru.cache)
    /\ Len(lru.cache) >= lru.maxSize
    /\ evicted = {Head(lru.recency)}

\* C24: LRUCache removes an entry only when a new key is inserted into a cache
\* at capacity, and the entry removed is the least recently used one, a get
\* that hits and every set of a key counting as a use of it.
EvictsOnlyLeastRecentlyUsed ==
  [][evictsLeastRecentOnly]_vars

\* C27: after any sequence of get, set and clear the number of stored entries
\* does not exceed the capacity maxSize.
SizeWithinCapacity ==
  Len(lru.cache) <= lru.maxSize

\* the same for a capacity of at least one
SizeWithinPositiveCapacity ==
  lru.maxSize >= 1 => Len(lru.cache) <= lru.maxSize

\* a step makes one convertWithCache call, on hist'.element
oneCacheCall == hist'.calls = hist.calls + 1

\* the key of that call is in the cache before the call
keyStored == mapHas(cache, generateCacheKey(hist'.element))

\* the call returns the stored value and counts a hit, or (its key not
\* stored) renders, stores what the rendering returned and counts a node
hitOrRenderedOnce ==
  oneCacheCall =>
    IF keyStored
    THEN /\ hist'.hit /\ hist'.out = mapGet(cache, generateCacheKey(hist'.element))
         /\ stats' = [stats EXCEPT !.cacheHits = @ + 1]
    ELSE /\ ~hist'.hit
         /\ hist'.err = NoError =>
              /\ stats' = [stats EXCEPT !.nodesProcessed = @ + 1]
              /\ mapHas(cache', generateCacheKey(hist'.element))

\* a call that returned has added one to cacheHits or to nodesProcessed
returnedCounted ==
  (oneCacheCall /\ hist'.err = NoError)
    => stats'.cacheHits + stats'.nodesProcessed = stats.cacheHits + stats.nodesProcessed + 1

\* C29: every convertWithCache call either finds its key in the cache, returns
\* the stored value without rendering and increments cacheHits, or renders
\* once, stores the result and increments nodesProcessed; each call that
\* returns adds one to cacheHits plus nodesProcessed, and a key that is stored
\* is not rendered again, whatever the value stored.
HitOrRenderedOnce ==
  [][hitOrRenderedOnce /\ returnedCounted]_vars

\* the count alone: cacheHits plus nodesProcessed is the number of
\* convertWithCache calls that returned
ReturnedCallsCounted ==
  [][returnedCounted]_vars

\* the k-th convert call has been made
requested(k) == k <= Len(worker.promises)

\* a promise that is resolved holds the markdown of its own call's element
resolvedWithOwn(k) ==
  settled(k, "resolved")
    => worker.promises[k].value = convertToMarkdown(outerHTML(worker.promises[k].element))

\* C28: for any interleaving of two or more outstanding convert calls on one
\* WorkerBasedParser every promise returned eventually settles, and a promise
\* that is resolved holds the result the worker computed for the element of
\* its own call.
EachCallGetsOwnResult ==
  /\ [](\A k \in 1..MaxRequests : resolvedWithOwn(k))
  /\ \A k \in 1..MaxRequests :
       [](requested(k) => <>(settled(k, "resolved") \/ settled(k, "rejected")))

\* the markers of the items of a list tree in source order: the items of an
\* ordered list count from 1, each list for itself
RECURSIVE itemMarkers(_), itemMarkersAmong(_, _, _)
itemMarkers(list) == itemMarkersAmong(list.kids, toLowerCase(list.tag), 1)

itemMarkersAmong(items, tag, i) ==
  IF items = <<>> THEN <<>>
  ELSE <<IF tag = "ol" THEN numToStr(i) \o <<".", " ">> ELSE <<options.bulletListMarker, " ">>>>
       \o (IF Len(Head(items).kids) = 2 THEN itemMarkers(Head(items).kids[2]) ELSE <<>>)
       \o itemMarkersAmong(Tail(items), tag, i + 1)

\* the line begins, after its indent, with the marker
markedWith(line, marker) ==
  /\ Len(trimStart(line)) >= Len(marker)
  /\ SubSeq(trimStart(line), 1, Len(marker)) = marker

\* C26: the items of an ordered list are numbered 1, 2, ..., k in source
\* order without gap or repeat; a list nested in an item counts from 1 for
\* itself, and after it the outer list goes on with its next number; the list
\* stack is empty when the outermost list has returned.
ItemsNumberedPerList ==
  (run.calls > 0 /\ result.err = NoError /\ isListTree(input)) =>
    /\ Len(linesOf(result.value)) = Len(itemMarkers(input))
    /\ \A i \in 1..Len(linesOf(result.value)) :
         markedWith(linesOf(result.value)[i], itemMarkers(input)[i])
    /\ state.listStack = <<>>

\* an ordered list of two items, an ordered list of two items inside the
\* first, has been converted: the markers are 1., 1., 2., 2.
NestedListNumbered ==
  /\ run.calls > 0 /\ result.err = NoError /\ isListTree(input)
  /\ itemMarkers(input) = <<<<"1", ".", " ">>, <<"1", ".", " ">>, <<"2", ".", " ">>, <<"2", ".", " ">>>>
  /\ Len(linesOf(result.value)) = 4

\* element c (0: the body) is the one the listed order of the selectors
\* gives: it is the first match of a selector, and no selector listed before
\* that one matches anything; the body, when no selector matches
firstInListedOrder(page, c) ==
  IF c = 0
  THEN \A i \in 1..Len(page.elements), k \in 1..Len(contentSelectors) :
         ~matchesSelector(page.elements[i], contentSelectors[k])
  ELSE \E k \in 1..Len(contentSelectors) :
         /\ matchesSelector(page.elements[c], contentSelectors[k])
         /\ \A i \in 1..(c - 1) : ~matchesSelector(page.elements[i], contentSelectors[k])
         /\ \A j \in 1..(k - 1), i \in 1..Len(page.elements) :
              ~matchesSelector(page.elements[i], contentSelectors[j])

\* the answer is a success with the Markdown of that element
answeredWithFallback(page, answer) ==
  /\ answer.success
  /\ \E c \in 0..Len(page.elements) :
       /\ firstInListedOrder(page, c)
       /\ answer.markdown = frontMatter("title: document") \o turndown(contentClone(page, c))

\* a request has been answered for a page Readability found no article in
fallbackAnswered == ext.answered # <<>> /\ ext.page.readability # "article"

\* C25: if Readability throws or yields no article content, convertToMarkdown
\* does not fail: it converts the first element matching the fallback
\* selectors in their listed order, or the document body when none matches,
\* and the request is answered with success and that Markdown.
FallbackAlwaysAnswers ==
  fallbackAnswered => answeredWithFallback(ext.page, ext.answered[1])

\* C25, for a document that has a body: the same
FallbackAnswersForHtml ==
  (fallbackAnswered /\ ext.page.kind = "html") => answeredWithFallback(ext.page, ext.answered[1])

\* a request is answered for a page whose second element matches a selector
\* listed before the one the first element matches
EarlierSelectorWon ==
  /\ fallbackAnswered /\ ext.page.kind = "html" /\ Len(ext.page.elements) = 2
  /\ ext.page.elements[1].class = "main" /\ ext.page.elements[2].tag = "ARTICLE"
  /\ ext.answered[1].markdown = frontMatter("title: document") \o <<"b">>

\* C30: whatever the page loads, shortcut commands, popup conversions and
\* fallback key presses on a tab, one trigger of the user runs the conversion
\* of the page at most once and opens at most one Markdown tab.
OneConversionPerTrigger ==
  \A t \in 1..MaxTriggers : ext.converted[t] <= 1 /\ ext.opened[t] <= 1

====
